---- MODULE Spec2Model ----
(***************************************************************************)
(* Job lifecycle and credit settlement of the image-generation front end:  *)
(* the generate handlers of ViewSync.tsx and Renovation.tsx, the job store *)
(* and the stuck-job reaper of jobService.ts.                              *)
(*                                                                         *)
(* Every await of the source is a step boundary: a handler and a sweep are *)
(* sequences of steps that interleave with each other and with the clock.  *)
(* A behaviour follows one generate request, one already stored job of an  *)
(* earlier session, and up to MaxSweeps sweeps.                            *)
(***************************************************************************)
EXTENDS Integers, Sequences, FiniteSets, Bags, TLC

\* ------------------------------------------------------------------ bounds
MaxUnits == 2
TickMinutes == 20
MaxClock == 60
MaxSweeps == 2
MaxFragments == 2

\* ------------------------------------------------------- program constants
BaseThresholdMinutes == 15
VideoThresholdMinutes == 60
OperationRetries == 2
DefaultRetries == 2

\* ------------------------------------------------------------------ values
NULL == "null"
NoMsg == <<"null">>
NoUrl == [kind |-> "null", n |-> 0, owner |-> NULL]
EmptyDb == [j \in {} |-> 0]

SessionUser == "u1"
OtherUser == "u2"
ToolViewSync == "ViewSync"
ToolVideo == "VideoGeneration"
Resolutions == {"Standard", "2K"}
Credits == {15}

\* the url a generation unit returns (a remote, transient url)
RemoteUrl(i) == [kind |-> "remote", n |-> i, owner |-> NULL]

\* error texts, as sequences of characters (a letter with a diacritic is
\* written as the letter followed by an ASCII mark)
MsgSafetyBlocked ==
  <<"S","A","F","E","T","Y","_","E","R","R","O","R",":"," ","b","l","o","c","k","e","d">>
MsgTimeout == <<"t","i","m","e","o","u","t">>
MsgEmpty == <<>>
MsgNoImage == <<"L","o~","i"," ","t","a.","o"," ","a?","n","h",".">>
MsgRenoNone ==
  <<"K","h","o^","n","g"," ","t","h","e?"," ","t","a.","o"," ","a?","n","h"," ",
    "n","a-","o"," ","s","a","u"," ","n","h","i","e^-","u"," ","l","a^-","n"," ",
    "t","h","u?",".">>
MsgBatchNone == <<"N","o"," ","i","m","a","g","e"," ","r","e","t","u","r","n","e","d">>
MsgCreateJob == <<"f","o","r","e","i","g","n"," ","k","e","y">>
MsgNoId == <<"I","n","s","e","r","t"," ","s","u","c","c","e","e","d","e","d"," ",
              "b","u","t"," ","n","o"," ","I","D">>
MsgCannotCreate ==
  <<"K","h","o^","n","g"," ","t","h","e?"," ","k","h","o+?","i"," ","t","a.","o"," ",
    "b","a?","n"," ","g","h","i"," ","c","o^","n","g"," ","v","i","e^.","c",".">>
MsgStuck ==
  <<"S","y","s","t","e","m"," ","T","i","m","e","o","u","t",":"," ",
    "A","u","t","o","-","r","e","f","u","n","d","e","d"," ","d","u","e"," ","t","o"," ",
    "i","n","a","c","t","i","v","i","t","y">>
RawErrors == {MsgSafetyBlocked, MsgTimeout, MsgEmpty}

VARIABLES db, balance, refundCalls, clock, life, ui, trace, reap, call

vars == <<db, balance, refundCalls, clock, life, ui, trace, reap, call>>

\* ------------------------------------------------------ error classifier
UpperChar(c) ==
  CASE c = "a" -> "A" [] c = "b" -> "B" [] c = "c" -> "C" [] c = "d" -> "D"
    [] c = "e" -> "E" [] c = "f" -> "F" [] c = "g" -> "G" [] c = "h" -> "H"
    [] c = "i" -> "I" [] c = "k" -> "K" [] c = "l" -> "L" [] c = "m" -> "M"
    [] c = "n" -> "N" [] c = "o" -> "O" [] c = "p" -> "P" [] c = "r" -> "R"
    [] c = "s" -> "S" [] c = "t" -> "T" [] c = "u" -> "U" [] c = "v" -> "V"
    [] c = "y" -> "Y" [] c = "o^" -> "O^" [] c = "d-" -> "D-" [] c = "u?" -> "U?"
    [] c = "j" -> "J" [] c = "q" -> "Q" [] c = "w" -> "W" [] c = "x" -> "X"
    [] c = "z" -> "Z"
    [] OTHER -> c

toUpperCase(s) == [i \in 1..Len(s) |-> UpperChar(s[i])]

includes(s, m) ==
  \E k \in 0..(Len(s) - Len(m)) : \A i \in 1..Len(m) : s[k + i] = m[i]

MarkCredits == <<"K","H","O^","N","G"," ","D-","U?"," ","C","R","E","D","I","T","S">>
MarkSafetyError == <<"S","A","F","E","T","Y","_","E","R","R","O","R">>
MarkSafety == <<"S","A","F","E","T","Y">>
MarkBlock == <<"B","L","O","C","K">>
MarkProhibited == <<"P","R","O","H","I","B","I","T","E","D">>
MarkUpload == <<"U","P","L","O","A","D"," ","F","A","I","L","E","D">>
MarkInvalid == <<"I","N","V","A","L","I","D","_","A","R","G","U","M","E","N","T">>
Mark400 == <<"4","0","0">>
MarkAspect ==
  <<"I","M","A","G","E","_","A","S","P","E","C","T","_","R","A","T","I","O">>
MarkPolicy ==
  <<"S","A","F","E","T","Y","_","P","O","L","I","C","Y","_","V","I","O","L","A","T","I","O","N">>

KeyGeneric == "err.sys.google_generic"
KeyCredits == "err.credit.insufficient_system"
KeySafety == "SAFETY_POLICY_VIOLATION"

\* a classifier that looks for the markers in the message as it was written
mapFriendlyErrorMessageCaseSensitive(errorMsg) ==
  IF errorMsg \in {NoMsg, MsgEmpty} THEN KeyGeneric
  ELSE LET msg == errorMsg IN
    IF includes(msg, MarkCredits) THEN KeyCredits
    ELSE IF \/ includes(msg, MarkSafetyError)
            \/ includes(msg, MarkSafety)
            \/ includes(msg, MarkBlock)
            \/ includes(msg, MarkProhibited)
            \/ includes(msg, MarkUpload)
            \/ includes(msg, MarkInvalid)
            \/ includes(msg, Mark400)
            \/ includes(msg, MarkAspect)
         THEN KeySafety
         ELSE KeyGeneric

\* a classifier that tests the safety markers before the credits marker
mapFriendlyErrorMessageSafetyFirst(errorMsg) ==
  IF errorMsg \in {NoMsg, MsgEmpty} THEN KeyGeneric
  ELSE LET msg == toUpperCase(errorMsg) IN
    IF \/ includes(msg, MarkSafetyError)
       \/ includes(msg, MarkSafety)
       \/ includes(msg, MarkBlock)
       \/ includes(msg, MarkProhibited)
       \/ includes(msg, MarkUpload)
       \/ includes(msg, MarkInvalid)
       \/ includes(msg, Mark400)
       \/ includes(msg, MarkAspect)
    THEN KeySafety
    ELSE IF includes(msg, MarkCredits) THEN KeyCredits
         ELSE KeyGeneric

\* !errorMsg holds for an absent message and for the empty string
mapFriendlyErrorMessage(errorMsg) ==
  IF errorMsg \in {NoMsg, MsgEmpty} THEN KeyGeneric
  ELSE LET msg == toUpperCase(errorMsg) IN
    IF includes(msg, MarkCredits) THEN KeyCredits
    ELSE IF \/ includes(msg, MarkSafetyError)
            \/ includes(msg, MarkSafety)
            \/ includes(msg, MarkBlock)
            \/ includes(msg, MarkProhibited)
            \/ includes(msg, MarkUpload)
            \/ includes(msg, MarkInvalid)
            \/ includes(msg, Mark400)
            \/ includes(msg, MarkAspect)
         THEN KeySafety
         ELSE KeyGeneric

\* ------------------------------------------------------- asset persister
\* A source is a record: kind "data" (a data: URI), "blob" (a blob: reference),
\* "remote" (an http(s) URL), "foreign" (an http(s) URL of another host whose
\* path holds the bucket name), "durable" (a URL holding both 'supabase.co' and
\* the bucket name) or "other" (any other scheme).
\* o: what each step answers when it is reached: "ok", "fail" (a response
\* that is not ok, an uploadError) or "throw" (a rejected promise, atob
\* throwing).
AllOk == [decode |-> "ok", local |-> "ok", direct |-> "ok", proxy |-> "ok", upload |-> "ok"]

HttpKinds == {"remote", "foreign"}

\* a remote fetch that asks the proxy first
FetchRemoteProxyFirst(o) ==
  IF o.proxy = "ok" THEN [got |-> TRUE, io |-> <<"proxy">>]
  ELSE [got |-> o.direct = "ok", io |-> <<"proxy", "direct">>]

\* the http branch: the direct fetch, and the proxy fetch in its catch
FetchRemote(o) ==
  IF o.direct = "ok" THEN [got |-> TRUE, io |-> <<"direct">>]
  ELSE [got |-> o.proxy = "ok", io |-> <<"direct", "proxy">>]

\* a persister without the test of the storage markers: a durable URL is
\* fetched and uploaded like any http URL
persistStepsNoShortCircuit(userId, data, o) ==
  IF data.kind = "other" THEN [result |-> data, io |-> <<>>]
  ELSE
    LET f == IF data.kind = "data" THEN [got |-> o.decode = "ok", io |-> <<>>]
             ELSE IF data.kind = "blob" THEN [got |-> o.local = "ok", io |-> <<"local">>]
             ELSE FetchRemote(o)
    IN IF ~f.got THEN [result |-> NoUrl, io |-> f.io]
       ELSE IF o.upload # "ok" THEN [result |-> NoUrl, io |-> Append(f.io, "upload")]
       ELSE [result |-> [kind |-> "durable", n |-> data.n, owner |-> userId],
             io |-> Append(f.io, "upload")]

\* what persistResultToStorage returns and the requests it makes, in order:
\* "local" (fetch of a blob:), "direct", "proxy", "upload"
persistSteps(userId, data, o) ==
  IF data.kind = "durable" THEN [result |-> data, io |-> <<>>]
  ELSE IF data.kind = "other" THEN [result |-> data, io |-> <<>>]
  ELSE
    LET f == IF data.kind = "data" THEN [got |-> o.decode = "ok", io |-> <<>>]
             ELSE IF data.kind = "blob" THEN [got |-> o.local = "ok", io |-> <<"local">>]
             ELSE FetchRemote(o)
    IN IF ~f.got THEN [result |-> NoUrl, io |-> f.io]
       ELSE IF o.upload # "ok" THEN [result |-> NoUrl, io |-> Append(f.io, "upload")]
       ELSE [result |-> [kind |-> "durable", n |-> data.n, owner |-> userId],
             io |-> Append(f.io, "upload")]

\* a persister without its outer try/catch: what a step throws reaches the
\* caller
persistOutcomeUncaught(data, o) ==
  IF \/ data.kind = "data" /\ o.decode = "throw"
     \/ data.kind = "blob" /\ o.local = "throw"
     \/ data.kind \in {"data", "blob", "remote", "foreign"} /\ o.upload = "throw"
  THEN "threw" ELSE "returned"

\* what the caller of persistResultToStorage gets, "returned" or "threw": the
\* body is one try block whose catch returns null
persistOutcome(data, o) == "returned"

\* directOk, proxyOk, uploadOk: the outcomes of the direct fetch, the proxy
\* fetch and the upload.
persistResultToStorage(userId, data, directOk, proxyOk, uploadOk) ==
  persistSteps(userId, data,
               [AllOk EXCEPT !.direct = IF directOk THEN "ok" ELSE "fail",
                             !.proxy = IF proxyOk THEN "ok" ELSE "fail",
                             !.upload = IF uploadOk THEN "ok" ELSE "fail"]).result

\* ------------------------------------------------------------- job store
NewRow(jobData, now) ==
  [user_id |-> jobData.user_id, tool_id |-> jobData.tool_id,
   prompt |-> jobData.prompt, cost |-> jobData.cost,
   usage_log_id |-> jobData.usage_log_id, status |-> "pending",
   result_url |-> NoUrl, error_message |-> NoMsg,
   created_at |-> now, updated_at |-> now]

\* the row array after the insert of createJob
createJob(d, id, jobData, now) == d @@ (id :> NewRow(jobData, now))

\* an update that leaves the error message of a completed job as it was
updateJobStatusKeepsError(d, jobId, status, resultUrl, errorMessage, now, ownerFound, persisted, writeOk) ==
  IF jobId \notin DOMAIN d \/ ~writeOk THEN d
  ELSE
    LET r1 == [d[jobId] EXCEPT !.status = status, !.updated_at = now]
        r3 == IF resultUrl # NoUrl
              THEN [r1 EXCEPT !.result_url =
                      IF ownerFound /\ persisted # NoUrl THEN persisted ELSE resultUrl]
              ELSE r1
        r4 == IF errorMessage # NoMsg /\ errorMessage # MsgEmpty
              THEN [r3 EXCEPT !.error_message = errorMessage]
              ELSE r3
    IN [d EXCEPT ![jobId] = r4]

\* an update that also stamps created_at
updateJobStatusStampsCreatedAt(d, jobId, status, resultUrl, errorMessage, now, ownerFound, persisted, writeOk) ==
  IF jobId \notin DOMAIN d \/ ~writeOk THEN d
  ELSE
    LET r1 == [d[jobId] EXCEPT !.status = status, !.updated_at = now, !.created_at = now]
        r2 == IF status = "completed" THEN [r1 EXCEPT !.error_message = NoMsg] ELSE r1
        r3 == IF resultUrl # NoUrl
              THEN [r2 EXCEPT !.result_url =
                      IF ownerFound /\ persisted # NoUrl THEN persisted ELSE resultUrl]
              ELSE r2
        r4 == IF errorMessage # NoMsg /\ errorMessage # MsgEmpty
              THEN [r3 EXCEPT !.error_message = errorMessage]
              ELSE r3
    IN [d EXCEPT ![jobId] = r4]

\* an update that writes what the persister returned, a null included
updateJobStatusWritesPersisted(d, jobId, status, resultUrl, errorMessage, now, ownerFound, persisted, writeOk) ==
  IF jobId \notin DOMAIN d \/ ~writeOk THEN d
  ELSE
    LET r1 == [d[jobId] EXCEPT !.status = status, !.updated_at = now]
        r2 == IF status = "completed" THEN [r1 EXCEPT !.error_message = NoMsg] ELSE r1
        r3 == IF resultUrl # NoUrl
              THEN [r2 EXCEPT !.result_url = IF ownerFound THEN persisted ELSE resultUrl]
              ELSE r2
        r4 == IF errorMessage # NoMsg /\ errorMessage # MsgEmpty
              THEN [r3 EXCEPT !.error_message = errorMessage]
              ELSE r3
    IN [d EXCEPT ![jobId] = r4]

\* ownerFound: the select of user_id returned the row; persisted: what the
\* persister returned; writeOk: the update reached the table.
updateJobStatus(d, jobId, status, resultUrl, errorMessage, now, ownerFound, persisted, writeOk) ==
  IF jobId \notin DOMAIN d \/ ~writeOk THEN d
  ELSE
    LET r1 == [d[jobId] EXCEPT !.status = status, !.updated_at = now]
        r2 == IF status = "completed" THEN [r1 EXCEPT !.error_message = NoMsg] ELSE r1
        r3 == IF resultUrl # NoUrl
              THEN [r2 EXCEPT !.result_url =
                      IF ownerFound /\ persisted # NoUrl THEN persisted ELSE resultUrl]
              ELSE r2
        r4 == IF errorMessage # NoMsg /\ errorMessage # MsgEmpty
              THEN [r3 EXCEPT !.error_message = errorMessage]
              ELSE r3
    IN [d EXCEPT ![jobId] = r4]

\* an updateJobStatus without its try/catch: a failed update reaches the caller
updateJobStatusOutcomeUncaught(resultUrl, ownerFound, persisted, writeOk) ==
  IF writeOk THEN "returned" ELSE "threw"

\* what the caller of updateJobStatus gets, "returned" or "threw": a lookup
\* without a row and a persister without a url are handled in the body, a
\* rejected update is not inspected, and whatever throws in the body is caught
\* and logged
updateJobStatusOutcome(resultUrl, ownerFound, persisted, writeOk) ==
  IF resultUrl # NoUrl /\ ~ownerFound THEN "returned"
  ELSE IF resultUrl # NoUrl /\ persisted = NoUrl THEN "returned"
  ELSE IF ~writeOk THEN "returned"
  ELSE "returned"

\* ---------------------------------------------------------- credit ledger
RefundCall(by, userId, amount, logId, ok) ==
  [by |-> by, user |-> userId, amount |-> amount, logId |-> logId, ok |-> ok]

\* refundCredits: the call is recorded (in a bag) whether or not it succeeds
refundCredits(by, userId, amount, logId, ok) ==
  /\ refundCalls' = refundCalls (+) SetToBag({RefundCall(by, userId, amount, logId, ok)})
  /\ balance' = IF ok /\ userId = SessionUser THEN balance + amount ELSE balance

\* --------------------------------------------------------------- handlers
getCostPerImage(resolution) ==
  CASE resolution = "Standard" -> 5
    [] resolution = "1K" -> 10
    [] resolution = "2K" -> 20
    [] resolution = "4K" -> 30
    [] OTHER -> 5

IdleLife ==
  [pc |-> "idle", handler |-> "none", n |-> 0, cost |-> 0, hasLedger |-> FALSE,
   logId |-> NULL, jobId |-> NULL, user |-> NULL, units |-> <<>>,
   collected |-> <<>>, lastError |-> NoMsg, rejected |-> NoMsg, err |-> NoMsg,
   resultUrl |-> NoUrl, userCredits |-> 0, hasCallback |-> FALSE, escaped |-> FALSE]

IdleUi ==
  [isLoading |-> FALSE, error |-> NULL, safetyModal |-> FALSE, insufficient |-> FALSE]

Log(e) == trace' = Append(trace, e)
LogAll(es) == trace' = trace \o es

\* the common entry of the four handlers: the balance check, the input check
\* and the loading flag; units is the number of generation units, cost the
\* price of the request.
\* a balance check that lets a request through that costs up to 10 more
InsufficientOffByTen(hasLedger, userCredits, cost) == hasLedger /\ userCredits < cost - 10

\* the guard of the handlers: onDeductCredits && userCredits < cost
Insufficient(hasLedger, userCredits, cost) == hasLedger /\ userCredits < cost

Start(handler, units, cost, hasLedger, hasCallback, hasSource) ==
  /\ life.pc = "idle"
  /\ IF Insufficient(hasLedger, balance, cost)
     THEN /\ life' = [life EXCEPT !.pc = "done", !.handler = handler, !.n = units,
                        !.cost = cost, !.hasLedger = hasLedger, !.userCredits = balance,
                        !.hasCallback = hasCallback]
          /\ ui' = [ui EXCEPT !.insufficient = hasCallback]
          /\ Log(IF hasCallback THEN "signal_insufficient" ELSE "return")
     ELSE IF ~hasSource
     THEN /\ life' = [life EXCEPT !.pc = "done", !.handler = handler, !.n = units,
                        !.cost = cost, !.hasLedger = hasLedger, !.userCredits = balance]
          /\ ui' = IF handler = "Renovation.handleGenerate" THEN ui
                   ELSE [ui EXCEPT !.error = "err.input.image"]
          /\ Log("return")
     ELSE /\ life' = [life EXCEPT !.pc = "deduct", !.handler = handler,
                        !.n = units, !.cost = cost, !.hasLedger = hasLedger,
                        !.userCredits = balance,
                        !.units = [i \in 1..units |-> "pending"]]
          /\ ui' = IF handler \in {"ViewSync.handleGenerate", "Renovation.handleGenerate"}
                   THEN [ui EXCEPT !.isLoading = TRUE, !.error = NULL]
                   ELSE [ui EXCEPT !.error = NULL]
          /\ Log("start")
  /\ UNCHANGED <<db, balance, refundCalls, clock, reap, call>>

handleGenerate ==
  \E n \in 1..MaxUnits, res \in Resolutions, hasLedger, hasCallback, hasSource \in BOOLEAN :
    Start("ViewSync.handleGenerate", n, n * getCostPerImage(res), hasLedger, hasCallback, hasSource)

handleGenerateSingleView ==
  \E res \in Resolutions, hasLedger, hasCallback, hasSource \in BOOLEAN :
    Start("ViewSync.handleGenerateSingleView", 1, getCostPerImage(res), hasLedger, hasCallback, hasSource)

handleGenerateBatch ==
  \E slots \in 1..MaxUnits, res \in Resolutions, hasLedger, hasCallback, hasSource \in BOOLEAN :
    Start("ViewSync.handleGenerateBatch", slots, slots * getCostPerImage(res), hasLedger, hasCallback, hasSource)

RenovationHandleGenerate ==
  \E n \in 1..MaxUnits, res \in Resolutions, hasLedger, hasCallback, hasSource \in BOOLEAN :
    Start("Renovation.handleGenerate", n, n * getCostPerImage(res), hasLedger, hasCallback, hasSource)

HasJobStore == life.handler = "ViewSync.handleGenerate"

\* a deduct whose failure is swallowed: the handler goes on without a log id
DeductFailureSwallowed ==
  /\ life.pc = "deduct"
  /\ \E ok \in BOOLEAN :
       /\ balance' = IF ok /\ life.hasLedger THEN balance - life.cost ELSE balance
       /\ life' = [life EXCEPT !.logId = IF ok /\ life.hasLedger THEN "L1" ELSE @,
                     !.pc = IF HasJobStore THEN "getUser" ELSE "gen"]
       /\ LogAll((IF ~life.hasLedger THEN <<>> ELSE IF ok THEN <<"deduct">> ELSE <<"deduct_failed">>)
                 \o (IF HasJobStore THEN <<>> ELSE <<"generate">>))
  /\ UNCHANGED <<db, refundCalls, clock, ui, reap, call>>

\* onDeductCredits: returns the usage log id or throws
Deduct ==
  /\ life.pc = "deduct"
  /\ IF life.hasLedger
     THEN \E ok \in BOOLEAN :
            IF ok
            THEN /\ balance' = balance - life.cost
                 /\ life' = [life EXCEPT !.logId = "L1",
                               !.pc = IF HasJobStore THEN "getUser" ELSE "gen"]
                 /\ LogAll(IF HasJobStore THEN <<"deduct">> ELSE <<"deduct", "generate">>)
            ELSE /\ balance' = balance
                 /\ life' = [life EXCEPT !.err = MsgTimeout, !.pc = "catch"]
                 /\ Log("deduct_failed")
     ELSE /\ balance' = balance
          /\ life' = [life EXCEPT !.pc = IF HasJobStore THEN "getUser" ELSE "gen"]
          /\ LogAll(IF HasJobStore THEN <<>> ELSE <<"generate">>)
  /\ UNCHANGED <<db, refundCalls, clock, ui, reap, call>>

\* supabase.auth.getUser() before the job is created
GetUser ==
  /\ life.pc = "getUser"
  /\ \E u \in {SessionUser, NULL} :
       /\ life' = [life EXCEPT !.user = u,
                     !.pc = IF u # NULL /\ life.logId # NULL THEN "create" ELSE "gen"]
       /\ LogAll(IF u # NULL /\ life.logId # NULL THEN <<>> ELSE <<"generate">>)
  /\ UNCHANGED <<db, balance, refundCalls, clock, ui, reap, call>>

CreateJob ==
  /\ life.pc = "create"
  /\ \E ok \in BOOLEAN :
       IF ok
       THEN /\ db' = createJob(db, "j1",
                       [user_id |-> life.user, tool_id |-> ToolViewSync, prompt |-> "p",
                        cost |-> life.cost, usage_log_id |-> life.logId], clock)
            /\ life' = [life EXCEPT !.jobId = "j1", !.pc = "markProcessing"]
            /\ Log("createJob")
       ELSE /\ db' = db
            /\ life' = [life EXCEPT !.err = MsgCreateJob, !.pc = "catch"]
            /\ Log("createJob_failed")
  /\ UNCHANGED <<balance, refundCalls, clock, ui, reap, call>>

MarkProcessing ==
  /\ life.pc = "markProcessing"
  /\ \E writeOk \in BOOLEAN :
       /\ db' = updateJobStatus(db, life.jobId, "processing", NoUrl, NoMsg, clock, TRUE, NoUrl, writeOk)
       /\ IF updateJobStatusOutcome(NoUrl, TRUE, NoUrl, writeOk) = "returned"
          THEN /\ life' = [life EXCEPT !.pc = "gen"]
               /\ LogAll(<<"update_processing", "generate">>)
          ELSE /\ life' = [life EXCEPT !.err = MsgTimeout, !.pc = "catch"]
               /\ Log("update_processing")
  /\ UNCHANGED <<balance, refundCalls, clock, ui, reap, call>>

\* whether the outcome of a unit rejects the promise of the unit
Rejects(handler, outcome) ==
  CASE handler = "ViewSync.handleGenerate" -> FALSE
    [] handler = "ViewSync.handleGenerateBatch" -> outcome \in {"empty", "throw"}
    [] OTHER -> outcome = "throw"

\* one generation unit settles: generateFlowImage (and the upscale) returned
\* a url, returned no url, or threw
UnitResolve ==
  /\ life.pc = "gen"
  /\ \E i \in 1..life.n, outcome \in {"url", "empty", "throw"}, m \in RawErrors :
       /\ life.units[i] = "pending"
       /\ outcome # "throw" => m = MsgEmpty
       /\ LET thrown == IF outcome = "throw" THEN m ELSE MsgBatchNone IN
          life' = [life EXCEPT
            !.units[i] = outcome,
            !.collected = IF outcome = "url" THEN Append(@, i) ELSE @,
            !.lastError = IF HasJobStore /\ outcome = "throw" THEN m ELSE @,
            !.rejected = IF Rejects(life.handler, outcome) /\ @ = NoMsg THEN thrown ELSE @]
  /\ UNCHANGED <<db, balance, refundCalls, clock, ui, trace, reap, call>>

Succeeded == {i \in 1..life.n : life.units[i] = "url"}
AllSettled == \A i \in 1..life.n : life.units[i] # "pending"
Min(S) == CHOOSE x \in S : \A y \in S : x <= y

\* the url of the unit that finished first (collectedUrls[0])
FirstCollectedUrl == RemoteUrl(Head(life.collected))

\* successfulUrls[0]: Promise.all keeps the request order
FirstSuccessfulUrl == RemoteUrl(Min(Succeeded))

\* await Promise.all(promises) and the decision that follows it
Join ==
  /\ life.pc = "gen"
  /\ \/ /\ life.rejected # NoMsg
        /\ life' = [life EXCEPT !.err = life.rejected, !.pc = "catch"]
        /\ Log("failure")
     \/ /\ life.rejected = NoMsg
        /\ AllSettled
        /\ IF Succeeded # {} \/ life.handler \in {"ViewSync.handleGenerateBatch", "ViewSync.handleGenerateSingleView"}
           THEN /\ life' = [life EXCEPT
                      !.resultUrl = IF Succeeded # {} THEN FirstSuccessfulUrl ELSE NoUrl,
                      !.pc = IF HasJobStore /\ life.jobId # NULL THEN "complete" ELSE "finally"]
                /\ Log("success")
           ELSE /\ life' = [life EXCEPT
                      !.err = IF ~HasJobStore THEN MsgRenoNone
                              ELSE IF life.lastError # NoMsg THEN life.lastError
                              ELSE MsgNoImage,
                      !.pc = "catch"]
                /\ Log("failure")
  /\ UNCHANGED <<db, balance, refundCalls, clock, ui, reap, call>>

\* jobService.updateJobStatus(jobId, 'completed', successfulUrls[0])
Complete ==
  /\ life.pc = "complete"
  /\ \E ownerFound, directOk, proxyOk, uploadOk, writeOk \in BOOLEAN :
       LET persisted == persistResultToStorage(db[life.jobId].user_id, life.resultUrl,
                                               directOk, proxyOk, uploadOk)
       IN /\ db' = updateJobStatus(db, life.jobId, "completed", life.resultUrl, NoMsg, clock,
                                   ownerFound, persisted, writeOk)
          /\ life' = IF updateJobStatusOutcome(life.resultUrl, ownerFound, persisted, writeOk)
                          = "returned"
                     THEN [life EXCEPT !.pc = "finally"]
                     ELSE [life EXCEPT !.err = MsgTimeout, !.pc = "catch"]
  /\ Log("update_completed")
  /\ UNCHANGED <<balance, refundCalls, clock, ui, reap, call>>

AfterRefund == IF HasJobStore /\ life.jobId # NULL THEN "failUpdate" ELSE "finally"

\* the head of the catch block: classification, the UI signal, and the
\* second supabase.auth.getUser()
Catch ==
  /\ life.pc = "catch"
  /\ LET rawMsg == life.err
         isSafety == IF life.handler \in {"ViewSync.handleGenerate", "Renovation.handleGenerate"}
                     THEN mapFriendlyErrorMessage(rawMsg) = KeySafety
                     ELSE includes(rawMsg, MarkPolicy)
     IN /\ ui' = IF isSafety THEN [ui EXCEPT !.safetyModal = TRUE]
                 ELSE [ui EXCEPT !.error = mapFriendlyErrorMessage(rawMsg)]
        /\ Log(IF isSafety THEN "signal_safety" ELSE "signal_error")
  /\ \E u \in {SessionUser, NULL} :
       life' = [life EXCEPT !.user = IF life.logId # NULL /\ life.hasLedger THEN u ELSE @,
                  !.pc = IF life.logId # NULL /\ life.hasLedger /\ u # NULL
                         THEN "refund" ELSE AfterRefund]
  /\ UNCHANGED <<db, balance, refundCalls, clock, reap, call>>

\* a refund whose failure leaves the catch block: only the finally runs
RefundRethrows ==
  /\ life.pc = "refund"
  /\ \E ok \in BOOLEAN :
       /\ refundCredits("lifecycle", life.user, life.cost, life.logId, ok)
       /\ Log(IF ok THEN "refund" ELSE "refund_failed")
       /\ life' = [life EXCEPT !.pc = IF ok THEN AfterRefund ELSE "finally"]
  /\ UNCHANGED <<db, clock, ui, reap, call>>

\* a refund of the price of one image instead of the price of the request
RefundOfOneImage ==
  /\ life.pc = "refund"
  /\ \E ok \in BOOLEAN :
       /\ refundCredits("lifecycle", life.user, life.cost \div life.n, life.logId, ok)
       /\ Log(IF ok THEN "refund" ELSE "refund_failed")
  /\ life' = [life EXCEPT !.pc = AfterRefund]
  /\ UNCHANGED <<db, clock, ui, reap, call>>

\* await refundCredits(user.id, cost, ..., logId) inside its own try/catch
Refund ==
  /\ life.pc = "refund"
  /\ \E ok \in BOOLEAN :
       /\ refundCredits("lifecycle", life.user, life.cost, life.logId, ok)
       /\ Log(IF ok THEN "refund" ELSE "refund_failed")
  /\ life' = [life EXCEPT !.pc = AfterRefund]
  /\ UNCHANGED <<db, clock, ui, reap, call>>

\* a 'failed' update that passes no error message
FailUpdateWithoutMessage ==
  /\ life.pc = "failUpdate"
  /\ \E writeOk \in BOOLEAN :
       /\ db' = updateJobStatus(db, life.jobId, "failed", NoUrl, NoMsg, clock, TRUE, NoUrl, writeOk)
       /\ life' = [life EXCEPT !.pc = "finally",
                     !.escaped = updateJobStatusOutcome(NoUrl, TRUE, NoUrl, writeOk) # "returned"]
  /\ Log("update_failed")
  /\ UNCHANGED <<balance, refundCalls, clock, ui, reap, call>>

\* jobService.updateJobStatus(jobId, 'failed', undefined, rawMsg); escaped
\* records an exception that leaves the catch block, and with it the handler
FailUpdate ==
  /\ life.pc = "failUpdate"
  /\ \E writeOk \in BOOLEAN :
       /\ db' = updateJobStatus(db, life.jobId, "failed", NoUrl, life.err, clock, TRUE, NoUrl, writeOk)
       /\ life' = [life EXCEPT !.pc = "finally",
                     !.escaped = updateJobStatusOutcome(NoUrl, TRUE, NoUrl, writeOk) # "returned"]
  /\ Log("update_failed")
  /\ UNCHANGED <<balance, refundCalls, clock, ui, reap, call>>

Finally ==
  /\ life.pc = "finally"
  /\ ui' = IF life.handler \in {"ViewSync.handleGenerate", "Renovation.handleGenerate"}
           THEN [ui EXCEPT !.isLoading = FALSE] ELSE ui
  /\ life' = [life EXCEPT !.pc = "done"]
  /\ Log("finally")
  /\ UNCHANGED <<db, balance, refundCalls, clock, reap, call>>

\* ----------------------------------------------------------------- reaper
\* found and marked record, for the last sweep, the jobs its select returned
\* and the jobs it issued the 'failed' update for; skipped records the jobs
\* that a sweep so far left alone as video jobs within their grace window,
\* errored the jobs of the last sweep whose reconciliation threw
IdleReap ==
  [pc |-> "idle", user |-> NULL, stuck |-> <<>>, sweeps |-> 0, found |-> {}, marked |-> {},
   skipped |-> {}, errored |-> {}]

\* a select that also returns rows that are still 'pending'
StuckRowsNotOnlyProcessing(userId) ==
  {j \in DOMAIN db : /\ db[j].user_id = userId
                     /\ db[j].status \in {"pending", "processing"}
                     /\ db[j].created_at < clock - BaseThresholdMinutes}

\* a select without the filter on the owner
StuckRowsOfAnyUser(userId) ==
  {j \in DOMAIN db : /\ db[j].status = "processing"
                     /\ db[j].created_at < clock - BaseThresholdMinutes}

\* the rows the select of cleanupStuckJobs returns
StuckRows(userId) ==
  {j \in DOMAIN db : /\ db[j].user_id = userId
                     /\ db[j].status = "processing"
                     /\ db[j].created_at < clock - BaseThresholdMinutes}

\* a grace window that still covers a video job of exactly 60 minutes
ExemptThroughThreshold(j) ==
  /\ db[j].tool_id = ToolVideo
  /\ (clock - db[j].created_at) <= VideoThresholdMinutes

\* a loop that skips every video row, whatever its age
ExemptWhateverAge(j) == db[j].tool_id = ToolVideo

\* the video rows the loop skips
Exempt(j) ==
  /\ db[j].tool_id = ToolVideo
  /\ (clock - db[j].created_at) < VideoThresholdMinutes

Snapshot(j) == [id |-> j, cost |-> db[j].cost, usage_log_id |-> db[j].usage_log_id]

Orderings(S) ==
  {s \in UNION {[1..k -> S] : k \in {Cardinality(S)}} : \A a, b \in 1..Len(s) : a # b => s[a] # s[b]}

\* a refund test that looks at the usage log id only
NeedsRefundWhateverCost(job) == job.usage_log_id # NULL

\* job.usage_log_id && job.cost > 0
NeedsRefund(job) == job.usage_log_id # NULL /\ job.cost > 0

ReapPc(stuck) ==
  IF stuck = <<>> THEN "idle"
  ELSE IF NeedsRefund(Head(stuck)) THEN "refund" ELSE "update"

\* cleanupStuckJobs(userId) up to the start of its loop; count is the number
\* of sweeps started so far, this one included, selects the answers the select
\* may give
SweepStart(count, selects) ==
  /\ reap.pc = "idle"
  /\ \E userId \in {SessionUser}, selectOk \in selects :
       IF ~selectOk
       THEN reap' = [reap EXCEPT !.sweeps = count, !.user = userId, !.found = {},
                           !.marked = {}, !.errored = {}]
       ELSE \E order \in Orderings({j \in StuckRows(userId) : ~Exempt(j)}) :
              LET stuck == [k \in 1..Len(order) |-> Snapshot(order[k])] IN
              reap' = [pc |-> ReapPc(stuck), user |-> userId, stuck |-> stuck,
                       sweeps |-> count, found |-> StuckRows(userId),
                       marked |-> {}, errored |-> {},
                       skipped |-> reap.skipped \cup {j \in StuckRows(userId) : Exempt(j)}]
  /\ UNCHANGED <<db, balance, refundCalls, clock, life, ui, trace, call>>

cleanupStuckJobs ==
  /\ reap.sweeps < MaxSweeps
  /\ SweepStart(reap.sweeps + 1, BOOLEAN)

\* a loop body that goes on to the 'failed' update after a refund that threw
ReapRefundFailureIgnored ==
  /\ reap.pc = "refund"
  /\ LET job == Head(reap.stuck) IN
     \E ok \in BOOLEAN :
       /\ refundCredits("reaper", reap.user, job.cost, job.usage_log_id, ok)
       /\ reap' = [reap EXCEPT !.pc = "update"]
  /\ UNCHANGED <<db, clock, life, ui, trace, call>>

\* step 1 of the loop body: the refund; a throw leaves the loop
ReapRefund ==
  /\ reap.pc = "refund"
  /\ LET job == Head(reap.stuck) IN
     \E ok \in BOOLEAN :
       /\ refundCredits("reaper", reap.user, job.cost, job.usage_log_id, ok)
       /\ reap' = IF ok THEN [reap EXCEPT !.pc = "update"]
                  ELSE [reap EXCEPT !.pc = "idle", !.stuck = <<>>,
                                    !.errored = @ \cup {job.id}]
  /\ UNCHANGED <<db, clock, life, ui, trace, call>>

\* step 2 of the loop body: the job is marked failed
ReapUpdate ==
  /\ reap.pc = "update"
  /\ LET job == Head(reap.stuck) IN
     \E writeOk \in BOOLEAN :
       /\ db' = updateJobStatus(db, job.id, "failed", NoUrl, MsgStuck, clock, TRUE, NoUrl, writeOk)
       /\ reap' = IF updateJobStatusOutcome(NoUrl, TRUE, NoUrl, writeOk) = "returned"
                  THEN [reap EXCEPT !.stuck = Tail(@), !.pc = ReapPc(Tail(reap.stuck)),
                                    !.marked = @ \cup {job.id}]
                  ELSE [reap EXCEPT !.pc = "idle", !.stuck = <<>>,
                                    !.errored = @ \cup {job.id}]
  /\ UNCHANGED <<balance, refundCalls, clock, life, ui, trace, call>>

\* ------------------------------------------------------------------ clock
Tick ==
  /\ clock + TickMinutes <= MaxClock
  /\ clock' = clock + TickMinutes
  /\ UNCHANGED <<db, balance, refundCalls, life, ui, trace, reap, call>>

\* --------------------------------------------------------- specifications
StoredRow(tool) ==
  [user_id |-> SessionUser, tool_id |-> tool, prompt |-> "p", cost |-> 10,
   usage_log_id |-> "L0", status |-> "processing", result_url |-> NoUrl,
   error_message |-> NoMsg, created_at |-> 0, updated_at |-> 0]

\* a job of another user, as old and as stuck as the stored job of the user
OtherRow == [StoredRow(ToolViewSync) EXCEPT !.user_id = OtherUser, !.usage_log_id = "L2"]

\* the table at the start: empty, or holding one job that an earlier session
\* of the user left in 'processing' next to a job of another user
StoredDbs ==
  {EmptyDb} \cup {("j0" :> StoredRow(tool)) @@ ("j2" :> OtherRow) : tool \in {ToolViewSync, ToolVideo}}

\* call: the last call of a job-store operation made on its own (outside a
\* handler and a sweep): its arguments, the table before it, what the store
\* answered and what the call returned
IdleCall ==
  [op |-> "none", jobId |-> NULL, status |-> NULL, resultUrl |-> NoUrl,
   errorMessage |-> NoMsg, ownerFound |-> FALSE, persisted |-> NoUrl, writeOk |-> FALSE,
   lookup |-> NULL, count |-> NULL, before |-> EmptyDb, outcome |-> NULL,
   position |-> 0, id |-> NULL, thrown |-> NoMsg, retries |-> 0, left |-> 0,
   attempts |-> <<>>, key |-> NULL, o |-> AllOk, io |-> <<>>, again |-> NoUrl,
   io2 |-> <<>>, i |-> 0, storage0 |-> {}, storage |-> {}]

Init ==
  /\ db \in StoredDbs
  /\ balance \in Credits
  /\ refundCalls = EmptyBag
  /\ clock = TickMinutes
  /\ life = IdleLife
  /\ ui = IdleUi
  /\ trace = <<>>
  /\ reap = IdleReap
  /\ call = IdleCall

LifecycleStep ==
  \/ Deduct \/ GetUser \/ CreateJob \/ MarkProcessing \/ UnitResolve \/ Join
  \/ Complete \/ Catch \/ Refund \/ FailUpdate \/ Finally

Next ==
  \/ handleGenerate
  \/ LifecycleStep
  \/ cleanupStuckJobs \/ ReapRefund \/ ReapUpdate
  \/ Tick

Spec == Init /\ [][Next]_vars

NextHandlers ==
  \/ handleGenerate \/ handleGenerateSingleView \/ handleGenerateBatch
  \/ RenovationHandleGenerate
  \/ LifecycleStep

SpecHandlers == Init /\ [][NextHandlers]_vars

\* the reaper on its own, on tables whose stuck job may lack a usage log id
\* or a positive cost
ReaperRow(tool, cost, log, created) ==
  [StoredRow(tool) EXCEPT !.cost = cost, !.usage_log_id = log,
                          !.created_at = created, !.updated_at = created]

ReaperDbs ==
  {("j0" :> ReaperRow(tool, cost, log, 0)) @@ ("j1" :> ReaperRow(ToolViewSync, 5, "L1", created))
     @@ ("j2" :> OtherRow) :
     tool \in {ToolViewSync, ToolVideo}, cost \in {-5, 0, 10}, log \in {NULL, "L0"},
     created \in {0, TickMinutes}}

InitReaper ==
  /\ db \in ReaperDbs
  /\ balance \in Credits
  /\ refundCalls = EmptyBag
  /\ clock = TickMinutes
  /\ life = IdleLife
  /\ ui = IdleUi
  /\ trace = <<>>
  /\ reap = IdleReap
  /\ call = IdleCall

NextReaper ==
  \/ cleanupStuckJobs \/ ReapRefund \/ ReapUpdate
  \/ Tick

SpecReaper == InitReaper /\ [][NextReaper]_vars

\* the reaper when sweeps for the user keep being run and the select, the
\* refund and the update succeed: the sweeps are not counted
SweepSucceeds == SweepStart(reap.sweeps, {TRUE})

ReapRefundSucceeds == ReapRefund /\ reap'.pc = "update"

ReapUpdateSucceeds == ReapUpdate /\ db'[Head(reap.stuck).id].status = "failed"

NextReaperFair ==
  \/ SweepSucceeds \/ ReapRefundSucceeds \/ ReapUpdateSucceeds
  \/ Tick

SpecReaperFair ==
  /\ InitReaper /\ [][NextReaperFair]_vars
  /\ WF_vars(Tick) /\ WF_vars(SweepSucceeds)
  /\ WF_vars(ReapRefundSucceeds) /\ WF_vars(ReapUpdateSucceeds)

\* -------------------------------------------------- job-store operations
\* one operation of jobService called on its own, on a table of jobs in any
\* of the states a handler and a sweep leave
DurableUrl(i, owner) == [kind |-> "durable", n |-> i, owner |-> owner]

StoreRow(status, err, url, created) ==
  [StoredRow(ToolViewSync) EXCEPT !.status = status, !.error_message = err,
                                  !.result_url = url, !.created_at = created,
                                  !.updated_at = created]

\* status, error message and result url of a stored job: untouched, completed,
\* failed by a handler or a sweep, failed by a sweep after it was completed
StoreProfiles ==
  {<<"pending", NoMsg, NoUrl>>, <<"processing", NoMsg, NoUrl>>,
   <<"completed", NoMsg, DurableUrl(1, SessionUser)>>,
   <<"failed", MsgTimeout, NoUrl>>, <<"failed", MsgStuck, NoUrl>>,
   <<"failed", MsgStuck, DurableUrl(1, SessionUser)>>}

StoreDbs ==
  {EmptyDb} \cup
  {("j0" :> StoreRow(p[1], p[2], p[3], c)) @@ ("j2" :> OtherRow) @@ more :
     p \in StoreProfiles, c \in {0, TickMinutes},
     more \in {EmptyDb} \cup {("j1" :> StoreRow(q[1], q[2], q[3], TickMinutes)) : q \in StoreProfiles}}

InitStore ==
  /\ db \in StoreDbs
  /\ balance \in Credits
  /\ refundCalls = EmptyBag
  /\ clock = TickMinutes
  /\ life = IdleLife
  /\ ui = IdleUi
  /\ trace = <<>>
  /\ reap = IdleReap
  /\ call = IdleCall

\* updateJobStatus(jobId, status, resultUrl?, errorMessage?)
UpdateJobStatusCall ==
  /\ call.op = "none"
  /\ \E jobId \in {"j0", "j9"}, status \in {"pending", "processing", "completed", "failed"},
        resultUrl \in {NoUrl, RemoteUrl(1), DurableUrl(2, SessionUser)},
        errorMessage \in {NoMsg, MsgEmpty, MsgTimeout},
        ownerFound, directOk, proxyOk, uploadOk, writeOk \in BOOLEAN :
       LET persisted ==
             IF resultUrl # NoUrl /\ ownerFound
             THEN persistResultToStorage(db[jobId].user_id, resultUrl, directOk, proxyOk, uploadOk)
             ELSE NoUrl
       IN /\ ownerFound => jobId \in DOMAIN db
          /\ resultUrl = NoUrl => ~ownerFound
          /\ ~(ownerFound /\ resultUrl.kind = "remote") => (directOk /\ proxyOk /\ uploadOk)
          /\ db' = updateJobStatus(db, jobId, status, resultUrl, errorMessage, clock,
                                   ownerFound, persisted, writeOk)
          /\ call' = [IdleCall EXCEPT
                        !.op = "updateJobStatus", !.jobId = jobId, !.status = status,
                        !.resultUrl = resultUrl, !.errorMessage = errorMessage,
                        !.ownerFound = ownerFound, !.persisted = persisted,
                        !.writeOk = writeOk, !.before = db,
                        !.outcome = updateJobStatusOutcome(resultUrl, ownerFound, persisted, writeOk)]
  /\ UNCHANGED <<balance, refundCalls, clock, life, ui, trace, reap>>

\* a count that also takes the jobs created at the same instant
JobsAheadOrSame(d, jobId) ==
  {j \in DOMAIN d : /\ d[j].status \in {"pending", "processing"}
                    /\ d[j].created_at <= d[jobId].created_at}

\* the rows the count query of getQueuePosition counts
JobsAhead(d, jobId) ==
  {j \in DOMAIN d : /\ d[j].status \in {"pending", "processing"}
                    /\ d[j].created_at < d[jobId].created_at}

\* lookup: the select of created_at gave the row ("row"), gave no data
\* ("norow") or threw; count: the count query gave a number ("count"), gave
\* null or threw
getQueuePosition(d, jobId, lookup, count) ==
  IF lookup = "throw" THEN 0
  ELSE IF lookup = "norow" THEN 0
  ELSE IF count = "throw" THEN 0
  ELSE (IF count = "null" THEN 0 ELSE Cardinality(JobsAhead(d, jobId))) + 1

GetQueuePositionCall ==
  /\ call.op = "none"
  /\ \E jobId \in {"j0", "j1", "j9"}, lookup \in {"row", "norow", "throw"},
        count \in {"count", "null", "throw"} :
       /\ lookup = "row" => jobId \in DOMAIN db
       /\ lookup # "row" => count = "count"
       /\ call' = [IdleCall EXCEPT
                     !.op = "getQueuePosition", !.jobId = jobId, !.lookup = lookup,
                     !.count = count, !.before = db, !.outcome = "returned",
                     !.position = getQueuePosition(db, jobId, lookup, count)]
  /\ UNCHANGED <<db, balance, refundCalls, clock, life, ui, trace, reap>>

\* what the insert of createJob answers: the id of the new row, no row, or an
\* error with a code and a message
InsertRow == [kind |-> "row", code |-> NULL, message |-> NoMsg]
InsertNoRow == [kind |-> "norow", code |-> NULL, message |-> NoMsg]
ErrForeignKeyCode == [kind |-> "error", code |-> "23503", message |-> MsgEmpty]
ErrForeignKeyText == [kind |-> "error", code |-> "PGRST", message |-> MsgCreateJob]
ErrOther == [kind |-> "error", code |-> "42501", message |-> MsgTimeout]
InsertResults == {InsertRow, InsertNoRow, ErrForeignKeyCode, ErrForeignKeyText, ErrOther}

MarkForeignKey == <<"f","o","r","e","i","g","n"," ","k","e","y">>

IsForeignKeyError(error) ==
  error.code = "23503" \/ includes(error.message, MarkForeignKey)

\* a retry condition that allows one retry more
ShouldRetryOnceMore(retries, error) == retries >= 0 /\ IsForeignKeyError(error)

\* a retry condition that takes every error
ShouldRetryAnyError(retries, error) == retries > 0

\* retries > 0 && (error.code === '23503' || error.message.includes('foreign key'))
ShouldRetry(retries, error) == retries > 0 /\ IsForeignKeyError(error)

StoreJobData ==
  [user_id |-> SessionUser, tool_id |-> ToolViewSync, prompt |-> "p", cost |-> 5,
   usage_log_id |-> "L3"]

\* the fields of a caller that also carries a status and a created_at
StoreJobDataCarrying(status) ==
  [user_id |-> SessionUser, tool_id |-> ToolViewSync, prompt |-> "p", cost |-> 5,
   usage_log_id |-> "L3", status |-> status, created_at |-> 0]

\* the keys of localStorage that createJob removes, and the contents of
\* localStorage when createJob is called
TxMarkers == {"opzen_last_charge_id", "opzen_pending_tx", "opzen_last_log_id"}

Storages == {{}, TxMarkers \cup {"theme"}, {"opzen_pending_tx", "theme"}}

\* a createJob that removes the markers after every insert
StorageAfterAnyInsert(res, storage) == storage \ TxMarkers

\* localStorage after an insert: the three removeItem calls come after the
\* throws for an error and for an answer without a row
StorageAfter(res, storage) ==
  IF res.kind = "row" THEN storage \ TxMarkers ELSE storage

\* createJob(jobData, retries) is called
CreateJobCall ==
  /\ call.op = "none"
  /\ \E retries \in 0..DefaultRetries, status \in {NULL, "completed"}, storage \in Storages :
       call' = [IdleCall EXCEPT !.op = "createJob", !.retries = retries, !.left = retries,
                                !.status = status, !.storage0 = storage, !.storage = storage,
                                !.before = db, !.outcome = "running"]
  /\ UNCHANGED <<db, balance, refundCalls, clock, life, ui, trace, reap>>

\* one insert of createJob and what follows it: the id is returned, or the
\* call waits a second and calls itself with one retry less, or it throws
CreateJobInsert ==
  /\ call.op = "createJob"
  /\ call.outcome = "running"
  /\ \E res \in InsertResults :
       LET attempts == Append(call.attempts, res)
           jobData == IF call.status = NULL THEN StoreJobData
                      ELSE StoreJobDataCarrying(call.status)
           storage == StorageAfter(res, call.storage)
       IN
       IF res.kind = "error"
       THEN /\ db' = db
            /\ call' = IF ShouldRetry(call.left, res)
                       THEN [call EXCEPT !.attempts = attempts, !.left = @ - 1,
                               !.storage = storage]
                       ELSE [call EXCEPT !.attempts = attempts, !.outcome = "threw",
                               !.storage = storage,
                               !.thrown = IF res.message = MsgEmpty THEN MsgCannotCreate
                                          ELSE res.message]
       ELSE /\ db' = createJob(db, "j3", jobData, clock)
            /\ call' = IF res.kind = "row"
                       THEN [call EXCEPT !.attempts = attempts, !.outcome = "returned",
                               !.storage = storage, !.id = "j3"]
                       ELSE [call EXCEPT !.attempts = attempts, !.outcome = "threw",
                               !.storage = storage, !.thrown = MsgNoId]
  /\ UNCHANGED <<balance, refundCalls, clock, life, ui, trace, reap>>

\* the pieces the error messages given to the classifier are made of: the
\* markers in lower and mixed case, a marker split over two pieces, and text
\* without a marker
Fragments ==
  {<<"s","a","f","e","t","y">>,
   <<"B","l","o","c","k","e","d">>,
   <<"p","r","o","h","i","b","i","t","e","d">>,
   <<"4","0","0">>, <<"4","0">>, <<"0">>,
   <<"I","n","v","a","l","i","d","_","A","r","g","u","m","e","n","t">>,
   <<"U","p","l","o","a","d"," ","f","a","i","l","e","d">>,
   <<"i","m","a","g","e","_","a","s","p","e","c","t","_","r","a","t","i","o">>,
   <<"k","h","o^","n","g"," ","d-","u?"," ","c","r","e","d","i","t","s">>,
   MsgTimeout}

RECURSIVE Flatten(_)
Flatten(fs) == IF fs = <<>> THEN <<>> ELSE Head(fs) \o Flatten(Tail(fs))

\* the absent message and every message of up to MaxFragments pieces
ClassifierInputs ==
  {NoMsg} \cup
  {Flatten(fs) : fs \in UNION {[1..k -> Fragments] : k \in 0..MaxFragments}}

\* mapFriendlyErrorMessage(errorMsg)
MapFriendlyErrorMessageCall ==
  /\ call.op = "none"
  /\ \E errorMsg \in ClassifierInputs :
       call' = [IdleCall EXCEPT !.op = "mapFriendlyErrorMessage", !.errorMessage = errorMsg,
                                !.before = db, !.outcome = "returned",
                                !.key = mapFriendlyErrorMessage(errorMsg)]
  /\ UNCHANGED <<db, balance, refundCalls, clock, life, ui, trace, reap>>

\* the sources given to the persister
DataUrl(i) == [kind |-> "data", n |-> i, owner |-> NULL]
BlobUrl(i) == [kind |-> "blob", n |-> i, owner |-> NULL]
ForeignUrl(i) == [kind |-> "foreign", n |-> i, owner |-> NULL]
OtherUrl(i) == [kind |-> "other", n |-> i, owner |-> NULL]

PersistInputs ==
  {DataUrl(1), BlobUrl(1), RemoteUrl(1), ForeignUrl(1), OtherUrl(1),
   DurableUrl(2, SessionUser), DurableUrl(2, OtherUser)}

\* the answers of the steps; a step that is not reached answers nothing, which
\* is written "ok"
StepOutcomes(data, io) ==
  {o \in [decode : {"ok", "throw"}, local : {"ok", "throw"},
          direct : {"ok", "fail", "throw"}, proxy : {"ok", "fail", "throw"},
          upload : {"ok", "fail", "throw"}] :
     /\ data.kind # "data" => o.decode = "ok"
     /\ (\A i \in DOMAIN io : io[i] # "local") => o.local = "ok"
     /\ (\A i \in DOMAIN io : io[i] # "direct") => o.direct = "ok"
     /\ (\A i \in DOMAIN io : io[i] # "proxy") => o.proxy = "ok"
     /\ (\A i \in DOMAIN io : io[i] # "upload") => o.upload = "ok"}

\* persistResultToStorage(userId, data)
PersistCall ==
  /\ call.op = "none"
  /\ \E data \in PersistInputs :
       \E o \in {x \in StepOutcomes(data, <<"local", "direct", "proxy", "upload">>) :
                    x \in StepOutcomes(data, persistSteps(SessionUser, data, x).io)} :
         LET r == persistSteps(SessionUser, data, o) IN
         call' = [IdleCall EXCEPT !.op = "persistResultToStorage", !.resultUrl = data,
                                  !.o = o, !.persisted = r.result, !.io = r.io,
                                  !.before = db, !.outcome = persistOutcome(data, o)]
  /\ UNCHANGED <<db, balance, refundCalls, clock, life, ui, trace, reap>>

\* persistResultToStorage(userId, u) for the url u that the call before
\* returned
PersistAgainCall ==
  /\ call.op = "persistResultToStorage"
  /\ call.outcome = "returned"
  /\ call.persisted # NoUrl
  /\ \E o \in {x \in StepOutcomes(call.persisted, <<"local", "direct", "proxy", "upload">>) :
                 x \in StepOutcomes(call.persisted, persistSteps(SessionUser, call.persisted, x).io)} :
       LET r == persistSteps(SessionUser, call.persisted, o) IN
       call' = [call EXCEPT !.op = "persistAgain", !.again = r.result, !.io2 = r.io,
                            !.outcome = persistOutcome(call.persisted, o)]
  /\ UNCHANGED <<db, balance, refundCalls, clock, life, ui, trace, reap>>

\* ------------------------------------------------- generation with retries
\* KeyToken stands for the 39 characters of an API key (AIza...)
KeyToken == "AIza-key"

RECURSIVE scrubErrorText(_)
\* text.replace(/AIza[A-Za-z0-9_-]{35}/g, '***'); the messages drawn below hold
\* no 'api_key:' text, which the other two replacements look for
scrubErrorText(text) ==
  IF text = <<>> THEN <<>>
  ELSE (IF Head(text) = KeyToken THEN <<"*", "*", "*">> ELSE <<Head(text)>>)
       \o scrubErrorText(Tail(text))

MarkBlockedLower == <<"b","l","o","c","k","e","d">>
Mark403 == <<"4","0","3">>
MarkApiKey == <<"A","P","I"," ","k","e","y">>
MarkNotFound ==
  <<"R","e","q","u","e","s","t","e","d"," ","e","n","t","i","t","y"," ",
    "w","a","s"," ","n","o","t"," ","f","o","u","n","d">>

MsgApiKeyInvalid ==
  <<"A","P","I"," ","K","e","y"," ","I","n","v","a","l","i","d"," ","o","r"," ",
    "E","x","p","i","r","e","d">>
MsgNotFound ==
  <<"L","o","i",":"," ","K","h","o^","n","g"," ","t","i","m"," ","t","h","a","y"," ",
    "t","h","u","c"," ","t","h","e"," ","y","e","u"," ","c","a","u",".">>
MsgRetryFailed == <<"R","e","t","r","y"," ","f","a","i","l","e","d">>

\* the message of the error that handleGeminiError throws
handleGeminiError(message) ==
  LET msg == scrubErrorText(message) IN
  IF includes(msg, MarkSafety) \/ includes(msg, MarkBlockedLower) THEN MarkPolicy
  ELSE IF includes(msg, Mark403) \/ includes(msg, MarkApiKey) THEN MsgApiKeyInvalid
  ELSE IF includes(msg, MarkNotFound) THEN MsgNotFound
  ELSE msg

\* what ai.models.generateContent rejects with
GeminiErrors ==
  {<<"S","A","F","E","T","Y">>,
   <<"R","e","s","p","o","n","s","e"," ","b","l","o","c","k","e","d">>,
   <<"s","a","f","e","t","y">>,
   <<"4","0","3">>,
   <<"b","a","d"," ","k","e","y"," ", KeyToken>>,
   MarkNotFound,
   MsgTimeout}

\* what one run of the operation gives: a list with a url, an empty list, or
\* the error that handleGeminiError throws for the error caught
OperationResults ==
  {[kind |-> "url", message |-> NoMsg], [kind |-> "empty", message |-> NoMsg]}
  \cup {[kind |-> "error", message |-> handleGeminiError(m)] : m \in GeminiErrors}

\* generateStandardImage(prompt, aspectRatio, image): retryOperation is entered
GenerateStandardImageCall ==
  /\ call.op = "none"
  /\ \E retries \in 0..OperationRetries :
       call' = [IdleCall EXCEPT !.op = "retryOperation", !.retries = retries, !.i = 0,
                                !.before = db, !.outcome = "running"]
  /\ UNCHANGED <<db, balance, refundCalls, clock, life, ui, trace, reap>>

\* one turn of the loop of retryOperation: the operation is invoked; its
\* value is returned, or its error is thrown when this was the last turn, or
\* the loop waits and goes on; a loop that ends throws "Retry failed"
RetryOperationTurn ==
  /\ call.op = "retryOperation"
  /\ call.outcome = "running"
  /\ IF call.i >= call.retries
     THEN call' = [call EXCEPT !.outcome = "threw", !.thrown = MsgRetryFailed]
     ELSE \E res \in OperationResults :
            LET attempts == Append(call.attempts, res) IN
            call' = IF res.kind # "error"
                    THEN [call EXCEPT !.attempts = attempts, !.outcome = "returned",
                                      !.id = res.kind]
                    ELSE IF call.i = call.retries - 1
                    THEN [call EXCEPT !.attempts = attempts, !.outcome = "threw",
                                      !.thrown = res.message]
                    ELSE [call EXCEPT !.attempts = attempts, !.i = @ + 1]
  /\ UNCHANGED <<db, balance, refundCalls, clock, life, ui, trace, reap>>

NextStore ==
  \/ GenerateStandardImageCall \/ RetryOperationTurn
  \/ PersistCall \/ PersistAgainCall
  \/ UpdateJobStatusCall
  \/ GetQueuePositionCall
  \/ CreateJobCall \/ CreateJobInsert
  \/ MapFriendlyErrorMessageCall

SpecStore == InitStore /\ [][NextStore]_vars

\* ------------------------------------------------------------- properties
Terminal == {"completed", "failed"}

RECURSIVE Copies(_, _)
Copies(B, S) ==
  IF S = {} THEN 0
  ELSE LET c == CHOOSE x \in S : TRUE IN CopiesIn(c, B) + Copies(B, S \ {c})

\* the number of refundCredits calls issued against a usage log id
RefundCount(logId) ==
  Copies(refundCalls, {c \in BagToSet(refundCalls) : c.logId = logId})

Occurs(e) == \E k \in 1..Len(trace) : trace[k] = e
Before(a, b) ==
  \A k \in 1..Len(trace) : trace[k] = b => \E m \in 1..(k - 1) : trace[m] = a

\* no handler step and no sweep is in progress
Settled == life.pc \in {"idle", "done"} /\ reap.pc = "idle"

\* the number of those calls that credited the ledger
CreditedCount(logId) ==
  Copies(refundCalls, {c \in BagToSet(refundCalls) : c.logId = logId /\ c.ok})

\* C1: every job is refunded at most once, and exactly once if and only if
\* its final status is 'failed': the ledger is never credited twice for one
\* job, and once the handler and the sweeps are over a 'completed' job has
\* not been credited and a 'failed' job has had its refund call.
C1_RefundedOnceIffFailed ==
  \A j \in DOMAIN db :
    /\ CreditedCount(db[j].usage_log_id) <= 1
    /\ (Settled /\ db[j].status = "completed") => CreditedCount(db[j].usage_log_id) = 0
    /\ (Settled /\ db[j].status = "failed") => RefundCount(db[j].usage_log_id) >= 1

\* C2: a status write never changes a status that is 'completed' or 'failed'.
C2_NoTransitionOutOfTerminal ==
  [][\A j \in DOMAIN db :
       db[j].status \in Terminal => db'[j].status = db[j].status]_vars

\* C3: the status of a job only moves forward: a 'processing' job is never
\* 'pending' again, a 'completed' or 'failed' job is never 'pending' or
\* 'processing' again.
C3_StatusMovesForward ==
  [][\A j \in DOMAIN db :
       /\ db[j].status = "processing" => db'[j].status # "pending"
       /\ db[j].status \in Terminal => db'[j].status \notin {"pending", "processing"}]_vars

\* a job of the handler went pending -> processing -> terminal
C3_Witness ==
  /\ "j1" \in DOMAIN db
  /\ Occurs("update_processing")
  /\ db["j1"].status \in Terminal

LifecycleRefunds == {c \in BagToSet(refundCalls) : c.by = "lifecycle"}

\* C4: in ViewSync.handleGenerate and Renovation.handleGenerate with a ledger
\* callback, createJob and the generator calls come only after a successful
\* deduct; after a failed deduct there is no job, no generator call and no
\* refund.
C4_DeductBeforeJobAndGenerator ==
  (life.handler \in {"ViewSync.handleGenerate", "Renovation.handleGenerate"} /\ life.hasLedger)
    => /\ Before("deduct", "createJob")
       /\ Before("deduct", "createJob_failed")
       /\ Before("deduct", "generate")
       /\ Occurs("deduct_failed")
            => /\ ~Occurs("createJob") /\ ~Occurs("createJob_failed")
               /\ ~Occurs("generate")
               /\ ~Occurs("refund") /\ ~Occurs("refund_failed")
               /\ "j1" \notin DOMAIN db
               /\ LifecycleRefunds = {}
               /\ life.logId = NULL

\* the deduct succeeded, the job was created and the generator was called
C4_Witness ==
  /\ life.handler = "ViewSync.handleGenerate"
  /\ life.hasLedger
  /\ Occurs("deduct") /\ Occurs("createJob") /\ Occurs("generate")

NothingDone ==
  /\ ~Occurs("deduct") /\ ~Occurs("deduct_failed")
  /\ ~Occurs("createJob") /\ ~Occurs("createJob_failed")
  /\ ~Occurs("generate")
  /\ ~Occurs("refund") /\ ~Occurs("refund_failed")
  /\ "j1" \notin DOMAIN db
  /\ balance = life.userCredits
  /\ LifecycleRefunds = {}

\* C5 as stated: whenever the balance is below the cost, the handler signals
\* insufficient credits and returns without deduct, job, generator call or
\* any change of job or ledger state.
C5_InsufficientAlwaysStops ==
  (life.pc # "idle" /\ life.userCredits < life.cost)
    => ui.insufficient /\ life.pc = "done" /\ NothingDone

\* C5 as amended: with a ledger callback supplied and the balance below the
\* cost, the handler returns without deduct, job, generator call or any
\* change of job or ledger state, and it signals insufficient credits when
\* the onInsufficientCredits callback is supplied.
C5_InsufficientStopsWithLedger ==
  (life.pc # "idle" /\ life.hasLedger /\ life.userCredits < life.cost)
    => /\ life.pc = "done"
       /\ NothingDone
       /\ life.hasCallback => ui.insufficient
       /\ ~ui.isLoading

\* a request that costs more than the balance was stopped and signalled
C5_Witness ==
  /\ life.pc = "done"
  /\ life.hasLedger
  /\ life.userCredits < life.cost
  /\ ui.insufficient
  /\ trace = <<"signal_insufficient">>

IsRefund(e) == e \in {"refund", "refund_failed"}

\* C6: in ViewSync.handleGenerate, when at least one unit returned a url, the
\* handler issues no refund and issues the 'completed' update, and the row
\* that update writes is 'completed' with the url (or the persisted copy of
\* the url) of the successful unit of lowest request index.
C6_CompletedWithFirstSuccessfulUrl ==
  [][/\ (life.pc = "complete" /\ life'.pc = "finally" /\ db' # db)
          => LET row == db'[life.jobId] IN
             /\ row.status = "completed"
             /\ row.result_url.kind \in {"remote", "durable"}
             /\ life.units[row.result_url.n] = "url"
             /\ \A i \in 1..life.n : life.units[i] = "url" => row.result_url.n <= i
     /\ (/\ life'.handler = "ViewSync.handleGenerate"
         /\ life'.pc \in {"complete", "finally", "done"}
         /\ \E i \in DOMAIN life'.units : life'.units[i] = "url")
          => /\ \A k \in 1..Len(trace') : ~IsRefund(trace'[k])
             /\ (life'.pc # "complete" /\ life'.jobId # NULL)
                  => \E k \in 1..Len(trace') : trace'[k] = "update_completed"]_vars

\* of two units only the second returned a url, and the job is 'completed'
\* with that url
C6_Witness ==
  /\ life.handler = "ViewSync.handleGenerate"
  /\ Len(life.units) = 2
  /\ life.units[1] = "throw" /\ life.units[2] = "url"
  /\ life.jobId # NULL
  /\ db[life.jobId].status = "completed"
  /\ db[life.jobId].result_url.n = 2
  /\ LifecycleRefunds = {}

\* C7: in ViewSync.handleGenerate, when the generation failed after a
\* successful deduct and job creation, the job is marked 'failed' only after
\* a refund of the cost against the usage log id of the deduct was issued.
C7_RefundBeforeFailed ==
  (life.handler = "ViewSync.handleGenerate"
     /\ (life.pc = "failUpdate" \/ Occurs("update_failed")))
    => /\ \E c \in LifecycleRefunds : c.amount = life.cost /\ c.logId = life.logId
       /\ \A k \in 1..Len(trace) :
            trace[k] = "update_failed" => \E m \in 1..(k - 1) : IsRefund(trace[m])

\* C8: a refundCredits call that fails in the failure path is not re-thrown:
\* ViewSync.handleGenerate still issues the 'failed' update for its job, and
\* the handler ends with the loading flag cleared.
C8_RefundFailureNotRethrown ==
  (life.handler \in {"ViewSync.handleGenerate", "Renovation.handleGenerate"}
     /\ Occurs("refund_failed"))
    => /\ life.pc \in {"failUpdate", "finally", "done"}
       /\ life.pc = "failUpdate" <=> (life.jobId # NULL /\ ~Occurs("update_failed"))
       /\ Before("refund_failed", "update_failed")
       /\ life.pc = "done" => (~ui.isLoading /\ Occurs("finally"))

\* the refund failed, and the job is 'failed' and the loading flag cleared
C8_Witness ==
  /\ life.handler = "ViewSync.handleGenerate"
  /\ Occurs("refund_failed")
  /\ life.pc = "done"
  /\ life.jobId # NULL
  /\ db[life.jobId].status = "failed"
  /\ ~ui.isLoading

\* C9: in the handlers that issue several units at once, a request of which
\* at least one unit returned a url is a success for which no refund is
\* issued, whatever the other units did.
C9_PartialSuccessNoRefund ==
  (/\ life.handler \in {"ViewSync.handleGenerate", "ViewSync.handleGenerateBatch",
                        "Renovation.handleGenerate"}
   /\ life.pc \notin {"idle", "deduct", "getUser", "create", "markProcessing", "gen"}
   /\ \E i \in DOMAIN life.units : life.units[i] = "url")
    => ~Occurs("refund")

ReaperRefunds == {c \in BagToSet(refundCalls) : c.by = "reaper"}

\* C10: when a sweep is over, every job its select returned that is not a
\* video job and has a usage log id and a positive cost has had its refund
\* of job.cost against job.usage_log_id and its 'failed' update with the
\* timeout message (a job whose own refund call failed is left aside).
C10_StuckJobRefundedAndFailed ==
  reap.pc = "idle"
    => \A j \in reap.found :
         (/\ db[j].tool_id # ToolVideo
          /\ db[j].usage_log_id # NULL
          /\ db[j].cost > 0
          /\ ~\E c \in ReaperRefunds : c.logId = db[j].usage_log_id /\ ~c.ok)
           => /\ \E c \in ReaperRefunds :
                   c.amount = db[j].cost /\ c.logId = db[j].usage_log_id /\ c.ok
              /\ j \in reap.marked

\* the number of refundCredits calls of the reaper in calls against logId
ReaperCallsFor(calls, logId) ==
  Copies(calls, {c \in BagToSet(calls) : c.by = "reaper" /\ c.logId = logId})

InSnapshot(r, j) == \E k \in DOMAIN r.stuck : r.stuck[k].id = j

\* C11: a sweep leaves a 'processing' video job younger than 60 minutes
\* alone (no step of the sweep refunds it or changes its row), and of the
\* jobs its select returned it processes exactly those that are not video
\* jobs younger than 60 minutes: a video job of 60 minutes or more and every
\* non-video job past the 15-minute threshold.
C11_VideoGraceWindow ==
  [][/\ (reap'.sweeps = reap.sweeps + 1)
          => \A j \in reap'.found :
               InSnapshot(reap', j)
                 <=> ~(/\ db[j].tool_id = ToolVideo
                       /\ clock - db[j].created_at < VideoThresholdMinutes)
     /\ (reap' # reap)
          => \A j \in DOMAIN db :
               (/\ db[j].tool_id = ToolVideo
                /\ clock - db[j].created_at < VideoThresholdMinutes)
                 => /\ db'[j] = db[j]
                    /\ ReaperCallsFor(refundCalls', db[j].usage_log_id)
                         = ReaperCallsFor(refundCalls, db[j].usage_log_id)]_vars

\* a video job was left alone by a sweep within its grace window and was
\* refunded and marked 'failed' by a later sweep
C11_Witness ==
  /\ "j0" \in reap.skipped
  /\ "j0" \in reap.marked
  /\ db["j0"].tool_id = ToolVideo
  /\ db["j0"].status = "failed"
  /\ \E c \in ReaperRefunds : c.logId = db["j0"].usage_log_id /\ c.ok

\* C12: when a sweep is over in which the reconciliation of one job threw,
\* every other job the sweep selected (video jobs left aside) has had its
\* refund call and its 'failed' update.
C12_SweepSurvivesJobError ==
  (reap.pc = "idle" /\ reap.errored # {})
    => \A j \in reap.found \ reap.errored :
         db[j].tool_id # ToolVideo
           => /\ j \in reap.marked
              /\ NeedsRefund(db[j]) => \E c \in ReaperRefunds : c.logId = db[j].usage_log_id

\* C13: the select of a sweep returns only rows of the swept user that are
\* 'processing' and were created more than 15 minutes before, and no step of
\* the sweep issues a refund for, or changes a field of, a job the select did
\* not return (a job that was 'pending', 'completed' or 'failed' at the
\* read, a job of another user, a job younger than the threshold).
C13_SweepLeavesOtherJobsAlone ==
  [][/\ (reap'.sweeps = reap.sweeps + 1)
          => \A j \in reap'.found :
               /\ db[j].user_id = reap'.user
               /\ db[j].status = "processing"
               /\ clock - db[j].created_at > BaseThresholdMinutes
     /\ (reap' # reap)
          => \A j \in DOMAIN db :
               j \notin reap'.found
                 => /\ db'[j] = db[j]
                    /\ ReaperCallsFor(refundCalls', db[j].usage_log_id)
                         = ReaperCallsFor(refundCalls, db[j].usage_log_id)]_vars

\* a sweep refunded and marked the stuck job of the user and is over, while
\* the completed job of the handler and the stuck job of the other user,
\* which its select did not return, are as they were and have no refund
C13_Witness ==
  /\ reap.pc = "idle"
  /\ reap.found = {"j0"}
  /\ reap.marked = {"j0"}
  /\ db["j0"].status = "failed"
  /\ "j1" \in DOMAIN db
  /\ db["j1"].status = "completed"
  /\ db["j2"] = OtherRow
  /\ ReaperCallsFor(refundCalls, "L1") = 0
  /\ ReaperCallsFor(refundCalls, "L2") = 0

\* C14: the sweep acts on what it read: its 'failed' update is issued after
\* the refund of the job was credited, whatever the row holds by then, and
\* when the update is accepted the row is 'failed' with the timeout message
\* and keeps the result url it had. With C14_Witness reached, the lost
\* update is a behaviour of the program: read as 'processing', completed
\* with a result by the handler, then refunded and marked 'failed'.
C14_LastWriterWins ==
  [][(reap.pc = "update" /\ reap' # reap)
       => LET job == Head(reap.stuck) IN
          /\ NeedsRefund(job)
               => \E c \in ReaperRefunds :
                    c.logId = job.usage_log_id /\ c.amount = job.cost /\ c.ok
          /\ db' # db
               => /\ db'[job.id].status = "failed"
                  /\ db'[job.id].error_message = MsgStuck
                  /\ db'[job.id].result_url = db[job.id].result_url]_vars

\* the job of the handler was completed with a result, and the sweep that
\* had read it as 'processing' has refunded it and left it 'failed'
C14_Witness ==
  /\ Settled
  /\ "j1" \in DOMAIN db
  /\ Occurs("update_completed")
  /\ db["j1"].status = "failed"
  /\ db["j1"].result_url # NoUrl
  /\ db["j1"].error_message = MsgStuck
  /\ LifecycleRefunds = {}
  /\ \E c \in ReaperRefunds : c.logId = "L1" /\ c.ok

\* C17: no call of updateJobStatus throws to its caller, whether its owner
\* lookup, the persister or its update failed: the handler goes from each of
\* its calls to the step that follows the call (not to its catch block, and
\* not out of it), and the sweep goes from its call to the next job.
C17_UpdateNeverThrows ==
  [][/\ (life.pc = "markProcessing" /\ life' # life) => life'.pc = "gen"
     /\ (life.pc = "complete" /\ life' # life) => life'.pc = "finally"
     /\ (life.pc = "failUpdate" /\ life' # life)
          => life'.pc = "finally" /\ ~life'.escaped
     /\ (reap.pc = "update" /\ reap' # reap)
          => /\ reap'.marked = reap.marked \cup {Head(reap.stuck).id}
             /\ reap'.stuck = Tail(reap.stuck)
             /\ reap'.errored = reap.errored]_vars

\* the 'processing' and the 'completed' update of the handler and the
\* 'failed' update of the sweep all failed to reach the table, and the
\* handler and the sweep ran to their end
C17_Witness ==
  /\ life.pc = "done"
  /\ reap.pc = "idle"
  /\ "j1" \in DOMAIN db
  /\ Occurs("update_processing") /\ Occurs("update_completed") /\ Occurs("finally")
  /\ db["j1"].status = "pending"
  /\ "j0" \in reap.marked
  /\ db["j0"].status = "processing"

\* C18: a job with a result url is 'completed'.
C18_ResultUrlOnlyWhenCompleted ==
  \A j \in DOMAIN db : db[j].result_url # NoUrl => db[j].status = "completed"

\* C15: when updateJobStatus(id, 'completed', url) has returned and its update
\* reached the table, the error message of the job is null, whatever it was
\* before the call.
C15_CompletedClearsErrorMessage ==
  (/\ call.op = "updateJobStatus"
   /\ call.status = "completed"
   /\ call.resultUrl # NoUrl
   /\ call.errorMessage = NoMsg
   /\ call.outcome = "returned"
   /\ call.writeOk
   /\ call.jobId \in DOMAIN db)
    => db[call.jobId].error_message = NoMsg

\* a job that a sweep had marked 'failed' with its timeout message was
\* completed with a url and has no error message left
C15_Witness ==
  /\ call.op = "updateJobStatus"
  /\ call.status = "completed"
  /\ call.resultUrl # NoUrl
  /\ call.errorMessage = NoMsg
  /\ call.jobId \in DOMAIN call.before
  /\ call.before[call.jobId].status = "failed"
  /\ call.before[call.jobId].error_message = MsgStuck
  /\ db[call.jobId].status = "completed"
  /\ db[call.jobId].error_message = NoMsg

\* C16: the result url that updateJobStatus, called with a result url, writes
\* to the job is the url the persister returned when the owner was found and
\* the persister returned one, and the url of the call otherwise; it is never
\* null.
C16_PersistedOrOriginalUrl ==
  (/\ call.op = "updateJobStatus"
   /\ call.resultUrl # NoUrl
   /\ call.writeOk
   /\ call.jobId \in DOMAIN db)
    => LET written == db[call.jobId].result_url IN
       /\ written # NoUrl
       /\ (call.ownerFound /\ call.persisted # NoUrl) => written = call.persisted
       /\ (~call.ownerFound \/ call.persisted = NoUrl) => written = call.resultUrl

\* the persister returned no url for a remote url, and the job holds the
\* remote url in place of the result url it had
C16_Witness ==
  /\ call.op = "updateJobStatus"
  /\ call.resultUrl = RemoteUrl(1)
  /\ call.ownerFound
  /\ call.persisted = NoUrl
  /\ call.jobId \in DOMAIN db
  /\ call.before[call.jobId].result_url = DurableUrl(1, SessionUser)
  /\ db[call.jobId].result_url = RemoteUrl(1)

FkOnly(attempts) ==
  \A k \in DOMAIN attempts : attempts[k].kind = "error" /\ IsForeignKeyError(attempts[k])

\* C19: createJob(fields, retries) inserts again after a foreign-key-class
\* error while retries are left: after up to `retries` such errors an insert
\* that gives the row makes it return the id of the new 'pending' job, and
\* when all of its retries + 1 inserts gave such an error it throws, with no
\* id returned and no row inserted.
C19_RetriesOnForeignKeyError ==
  call.op = "createJob"
    => LET n == Len(call.attempts) IN
       /\ n <= call.retries + 1
       /\ FkOnly(call.attempts)
            => IF n <= call.retries
               THEN call.outcome = "running"
               ELSE /\ call.outcome = "threw"
                    /\ call.id = NULL
                    /\ db = call.before
       /\ (n >= 1 /\ FkOnly(SubSeq(call.attempts, 1, n - 1)) /\ call.attempts[n] = InsertRow)
            => /\ call.outcome = "returned"
               /\ call.id \in DOMAIN db
               /\ call.id \notin DOMAIN call.before
               /\ db[call.id].status = "pending"

\* createJob(fields, 2) returned the id of the new job from its third insert,
\* after two foreign-key-class errors
C19_Witness ==
  /\ call.op = "createJob"
  /\ call.retries = DefaultRetries
  /\ call.attempts = <<ErrForeignKeyCode, ErrForeignKeyText, InsertRow>>
  /\ call.outcome = "returned"
  /\ call.id = "j3"
  /\ "j3" \in DOMAIN db

\* C20: getQueuePosition(id) is never negative, is 0 when the job is not
\* found, and, when the job is found and counted, is 1 plus the number of
\* 'pending' and 'processing' jobs created strictly before the job.
C20_QueuePosition ==
  call.op = "getQueuePosition"
    => /\ call.position >= 0
       /\ call.jobId \notin DOMAIN db => call.position = 0
       /\ (call.lookup = "row" /\ call.count = "count")
            => call.position =
                 1 + Cardinality({j \in DOMAIN db :
                                    /\ db[j].status \in {"pending", "processing"}
                                    /\ db[j].created_at < db[call.jobId].created_at})

\* the position of a 'processing' job is 2: of the two other jobs one
\* 'processing' job is older and one 'pending' job has the same creation time
C20_Witness ==
  /\ call.op = "getQueuePosition"
  /\ call.jobId = "j1"
  /\ call.lookup = "row" /\ call.count = "count"
  /\ call.position = 2
  /\ db["j1"].status = "processing"
  /\ db["j0"].status = "pending" /\ db["j0"].created_at = db["j1"].created_at
  /\ db["j2"].status = "processing" /\ db["j2"].created_at < db["j1"].created_at

\* the message holds the marker m (written in upper case) in any letter case
ContainsAnyCase(s, m) ==
  \E k \in 0..(Len(s) - Len(m)) : \A i \in 1..Len(m) : UpperChar(s[k + i]) = m[i]

Classified == call.op = "mapFriendlyErrorMessage"

NamedSafetyMarker(s) ==
  \/ ContainsAnyCase(s, MarkSafety) \/ ContainsAnyCase(s, MarkBlock)
  \/ ContainsAnyCase(s, MarkProhibited) \/ ContainsAnyCase(s, Mark400)
  \/ ContainsAnyCase(s, MarkInvalid)

AnySafetyMarker(s) ==
  \/ NamedSafetyMarker(s) \/ ContainsAnyCase(s, MarkSafetyError)
  \/ ContainsAnyCase(s, MarkUpload) \/ ContainsAnyCase(s, MarkAspect)

\* C21 as stated: every non-empty message that holds a safety, block,
\* prohibited, 400 or invalid-argument marker in any letter case is classified
\* SAFETY_POLICY_VIOLATION
C21_SafetyMarkerGivesSafety ==
  (Classified /\ call.errorMessage \notin {NoMsg, MsgEmpty}
     /\ NamedSafetyMarker(call.errorMessage))
    => call.key = KeySafety

\* C21 amended: every non-empty message that holds a safety, block,
\* prohibited, 400 or invalid-argument marker in any letter case and does not
\* hold the insufficient-credits marker is classified SAFETY_POLICY_VIOLATION
C21_SafetyMarkerWithoutCreditsGivesSafety ==
  (Classified /\ call.errorMessage \notin {NoMsg, MsgEmpty}
     /\ NamedSafetyMarker(call.errorMessage)
     /\ ~ContainsAnyCase(call.errorMessage, MarkCredits))
    => call.key = KeySafety

\* a message whose only marker is an invalid-argument marker in mixed case was
\* classified SAFETY_POLICY_VIOLATION
C21_Witness ==
  /\ Classified
  /\ ContainsAnyCase(call.errorMessage, MarkInvalid)
  /\ ~includes(call.errorMessage, MarkInvalid)
  /\ ~ContainsAnyCase(call.errorMessage, MarkCredits)
  /\ call.key = KeySafety

\* C22: the classifier returns one of three kinds, by rules tried in this
\* order: an absent or empty message is generic; a message with the
\* insufficient-credits marker is insufficient-credits, a safety marker in it
\* or not; a message with a safety-class marker is SAFETY_POLICY_VIOLATION;
\* every other message is generic
C22_ThreeKindsInFixedOrder ==
  Classified =>
    LET m == call.errorMessage IN
    /\ call.key \in {KeyGeneric, KeyCredits, KeySafety}
    /\ call.key =
         (IF m \in {NoMsg, MsgEmpty} THEN KeyGeneric
          ELSE IF ContainsAnyCase(m, MarkCredits) THEN KeyCredits
          ELSE IF AnySafetyMarker(m) THEN KeySafety
          ELSE KeyGeneric)

\* a message with both the insufficient-credits marker and a safety marker was
\* classified insufficient-credits
C22_Witness ==
  /\ Classified
  /\ ContainsAnyCase(call.errorMessage, MarkCredits)
  /\ NamedSafetyMarker(call.errorMessage)
  /\ call.key = KeyCredits

Persisted == call.op \in {"persistResultToStorage", "persistAgain"}

PersistedTwice == call.op = "persistAgain"

Count(seq, e) == Cardinality({i \in DOMAIN seq : seq[i] = e})

HasBucketMarker(url) == url.kind \in {"durable", "foreign"}

\* C23 as stated: a URL with the storage bucket marker is returned unchanged
\* without a fetch and without an upload, and whenever persist(u, x) returned
\* a URL, persist(u, persist(u, x)) returns the same URL with exactly one
\* upload in the two calls together
C23_IdempotentWithOneUpload ==
  /\ (Persisted /\ HasBucketMarker(call.resultUrl))
       => (call.persisted = call.resultUrl /\ call.io = <<>>)
  /\ PersistedTwice
       => (call.again = call.persisted /\ Count(call.io \o call.io2, "upload") = 1)

\* C23 amended: a URL with both the storage host marker and the bucket marker
\* is returned unchanged without a fetch and without an upload, and whenever
\* persist(u, x) returned a URL, persist(u, persist(u, x)) returns the same URL
\* and makes no request: one upload in the two calls together when x was a
\* data URI, a blob reference or an http(s) URL without both markers, none when
\* x had both markers or another scheme
C23_IdempotentWithoutSecondUpload ==
  /\ (Persisted /\ call.resultUrl.kind = "durable")
       => (call.persisted = call.resultUrl /\ call.io = <<>>)
  /\ PersistedTwice
       => /\ call.again = call.persisted
          /\ call.io2 = <<>>
          /\ Count(call.io \o call.io2, "upload") =
               (IF call.resultUrl.kind \in {"durable", "other"} THEN 0 ELSE 1)

\* a remote URL was fetched and uploaded, and the URL returned was persisted
\* again
C23_Witness ==
  /\ PersistedTwice
  /\ call.resultUrl = RemoteUrl(1)
  /\ call.io = <<"direct", "upload">>
  /\ call.persisted.kind = "durable"
  /\ call.again = call.persisted

\* a step of the persister failed: the decoding of a data URI, the fetch of a
\* blob, both fetches of an http(s) URL, or the upload of what was fetched
PersistFailed ==
  LET k == call.resultUrl.kind
      fetched == \/ k = "data" /\ call.o.decode = "ok"
                 \/ k = "blob" /\ call.o.local = "ok"
                 \/ k \in HttpKinds /\ (call.o.direct = "ok" \/ call.o.proxy = "ok")
  IN \/ k = "data" /\ call.o.decode # "ok"
     \/ k = "blob" /\ call.o.local # "ok"
     \/ k \in HttpKinds /\ call.o.direct # "ok" /\ call.o.proxy # "ok"
     \/ fetched /\ call.o.upload # "ok"

\* C24: persistResultToStorage never throws; when the decoding, the fetch or
\* the upload fails it returns null; a storage URL that is not the source
\* itself is returned only when the last request was an upload that reported no
\* error
C24_PersistNeverThrows ==
  call.op = "persistResultToStorage" =>
    /\ call.outcome = "returned"
    /\ PersistFailed => call.persisted = NoUrl
    /\ (call.persisted # NoUrl /\ call.persisted # call.resultUrl)
         => /\ call.io # <<>>
            /\ call.io[Len(call.io)] = "upload"
            /\ call.o.upload = "ok"
            /\ call.persisted.kind = "durable"

\* the upload of a decoded data URI threw and the persister returned null
C24_Witness ==
  /\ call.op = "persistResultToStorage"
  /\ call.resultUrl = DataUrl(1)
  /\ call.o.upload = "throw"
  /\ call.outcome = "returned"
  /\ call.persisted = NoUrl

\* C25: for an http(s) source the first request is the direct fetch; the proxy
\* is asked exactly once when the direct fetch failed and never when it
\* succeeded; when both fail the persister returns null without an upload
C25_DirectThenProxyOnce ==
  (call.op = "persistResultToStorage" /\ call.resultUrl.kind \in HttpKinds) =>
    /\ call.io # <<>> /\ call.io[1] = "direct"
    /\ Count(call.io, "direct") = 1
    /\ Count(call.io, "proxy") = (IF call.o.direct = "ok" THEN 0 ELSE 1)
    /\ call.o.direct # "ok" => (Len(call.io) >= 2 /\ call.io[2] = "proxy")
    /\ (call.o.direct # "ok" /\ call.o.proxy # "ok")
         => (call.persisted = NoUrl /\ Count(call.io, "upload") = 0)

\* the direct fetch failed, the proxy fetch succeeded and the upload gave a
\* durable URL
C25_Witness ==
  /\ call.op = "persistResultToStorage"
  /\ call.resultUrl = RemoteUrl(1)
  /\ call.o.direct = "fail"
  /\ call.io = <<"direct", "proxy", "upload">>
  /\ call.persisted.kind = "durable"

IsSignal(e) == e \in {"signal_safety", "signal_error"}

\* C26: in each of the four handlers, once the catch block has surfaced a
\* failure whose raw error mapFriendlyErrorMessage classifies as
\* SAFETY_POLICY_VIOLATION, the safety modal is shown and no error text is set
C26_SafetyClassifiedShowsModal ==
  ((\E k \in 1..Len(trace) : IsSignal(trace[k]))
      /\ mapFriendlyErrorMessage(life.err) = KeySafety)
    => (ui.safetyModal /\ ui.error = NULL)

\* C27: when the generation fails after a successful deduct, the failure is
\* surfaced (modal or error text) only after a refund call has been issued
C27_RefundBeforeSignal ==
  \A k \in 1..Len(trace) :
    (IsSignal(trace[k]) /\ (\E d, f \in 1..k : trace[d] = "deduct" /\ trace[f] = "failure"))
      => \E m \in 1..k : IsRefund(trace[m])

\* C28: a handler that deducted credits, called the generator and finished
\* without a result image has issued a refund call
C28_NoImageMeansRefund ==
  (life.pc = "done" /\ Occurs("deduct") /\ Occurs("generate") /\ Succeeded = {})
    => \E m \in 1..Len(trace) : IsRefund(trace[m])

\* the deducts made so far, as pairs of the usage log id the ledger returned
\* and the amount taken: the deduct of the request of this session, and the
\* deducts behind the jobs that earlier sessions left in the table
Deducts ==
  (IF life.logId # NULL THEN {[logId |-> life.logId, amount |-> life.cost]} ELSE {})
  \cup {[logId |-> r.usage_log_id, amount |-> r.cost] :
          r \in {StoredRow(ToolViewSync), StoredRow(ToolVideo), OtherRow}}

\* C29: every refund call, of a handler or of a sweep, carries the usage log
\* id that a deduct returned and the amount of that deduct
C29_RefundMatchesDeduct ==
  \A c \in BagToSet(refundCalls) :
    /\ c.logId # NULL
    /\ [logId |-> c.logId, amount |-> c.amount] \in Deducts
    /\ c.by = "lifecycle" => (c.logId = life.logId /\ c.amount = life.cost /\ Occurs("deduct"))

\* a handler refunded a request of two images and a sweep refunded a job
C29_Witness ==
  /\ \E c \in BagToSet(refundCalls) :
       c.by = "lifecycle" /\ life.n = 2 /\ c.amount = life.cost /\ c.logId = life.logId
  /\ \E c \in BagToSet(refundCalls) :
       c.by = "reaper" /\ [logId |-> c.logId, amount |-> c.amount] \in Deducts

\* C30: inside retryOperation, an invocation of the operation that ended with
\* SAFETY_POLICY_VIOLATION from handleGeminiError is the last invocation
C30_SafetyNotRetried ==
  call.op = "retryOperation" =>
    \A k \in 1..Len(call.attempts) :
      (call.attempts[k].kind = "error" /\ call.attempts[k].message = MarkPolicy)
        => k = Len(call.attempts)

\* the reaper has issued a refund call for the job of the snapshot
ReaperRefunded(job) ==
  \E c \in BagToSet(refundCalls) :
    c.by = "reaper" /\ c.logId = job.usage_log_id /\ c.amount = job.cost

\* C31: when the sweep comes to mark a stuck job, a refund call for the job
\* has been issued if and only if the job has a usage log id and a cost above
\* zero; the marking step issues no refund and writes 'failed' with the fixed
\* timeout message
C31_RefundOnlyWithLogAndCost ==
  [][reap.pc = "update" =>
       LET job == Head(reap.stuck) IN
       /\ ReaperRefunded(job) <=> (job.usage_log_id # NULL /\ job.cost > 0)
       /\ refundCalls' = refundCalls
       /\ \/ db' = db
          \/ /\ db'[job.id].status = "failed"
             /\ db'[job.id].error_message = MsgStuck]_vars

\* a stuck job with a usage log id and a cost of zero was marked 'failed' with
\* the timeout message and no refund call was made for it
C31_Witness ==
  /\ "j0" \in reap.marked
  /\ db["j0"].cost = 0 /\ db["j0"].usage_log_id = "L0"
  /\ db["j0"].status = "failed" /\ db["j0"].error_message = MsgStuck
  /\ \A c \in BagToSet(refundCalls) : c.logId # "L0"

FrameFields == {"created_at", "user_id", "tool_id", "prompt", "cost", "usage_log_id"}

\* C32: after a call of updateJobStatus the table holds the same jobs, every
\* other job is as it was, and the addressed job has its created_at, user_id,
\* tool_id, prompt, cost and usage_log_id as before
C32_UpdateFrame ==
  call.op = "updateJobStatus" =>
    /\ DOMAIN db = DOMAIN call.before
    /\ \A j \in DOMAIN db :
         /\ j # call.jobId => db[j] = call.before[j]
         /\ \A f \in FrameFields : db[j][f] = call.before[j][f]

\* an update at minute TickMinutes reached the row of a job created at minute
\* 0 and changed its status, updated_at, result_url and error_message
C32_Witness ==
  /\ call.op = "updateJobStatus"
  /\ call.jobId = "j0" /\ "j0" \in DOMAIN db
  /\ call.before["j0"].created_at = 0
  /\ db["j0"].status # call.before["j0"].status
  /\ db["j0"].updated_at # call.before["j0"].updated_at
  /\ db["j0"].result_url # call.before["j0"].result_url
  /\ db["j0"].error_message # call.before["j0"].error_message

\* a job that a lifecycle created (with the log id and the cost of its
\* deduct) and left in 'processing'
Abandoned(j) ==
  /\ db[j].user_id = SessionUser
  /\ db[j].status = "processing"
  /\ db[j].usage_log_id # NULL /\ db[j].cost > 0

\* 15 minutes have passed since the job was created, 60 for a video job
PastThreshold(j) ==
  /\ clock - db[j].created_at > BaseThresholdMinutes
  /\ db[j].tool_id = ToolVideo => clock - db[j].created_at >= VideoThresholdMinutes

Compensated(j) ==
  /\ db[j].status = "failed"
  /\ \E c \in BagToSet(refundCalls) :
       c.by = "reaper" /\ c.ok /\ c.logId = db[j].usage_log_id /\ c.amount = db[j].cost

\* C33: when sweeps for the owner keep being run and the calls succeed, an
\* abandoned 'processing' job that is past its threshold eventually is 'failed'
\* and refunded
C33_AbandonedJobCompensated ==
  \A j \in {"j0", "j1"} : (Abandoned(j) /\ PastThreshold(j)) ~> Compensated(j)

\* an abandoned video job was failed and refunded once 60 minutes had passed
C33_Witness ==
  /\ db["j0"].tool_id = ToolVideo
  /\ clock - db["j0"].created_at >= VideoThresholdMinutes
  /\ Compensated("j0")

\* C34: when a unit of ViewSync.handleGenerate threw and none gave an image,
\* the error the catch block holds is the text the generator threw last, and
\* the 'failed' update that reaches the table sets the status 'failed' and
\* stores that text as it is (an empty text is contained in whatever the row
\* holds and is not written)
C34_FailedWithRawMessage ==
  [][(life.pc = "failUpdate" /\ life.lastError # NoMsg /\ db' # db) =>
       /\ life.err = life.lastError
       /\ life.err \in RawErrors
       /\ db'[life.jobId].status = "failed"
       /\ life.err # MsgEmpty => db'[life.jobId].error_message = life.err]_vars

\* the generator threw "SAFETY_ERROR: blocked" and the job of the request is
\* 'failed' with that text as its error message
C34_Witness ==
  /\ life.pc = "done"
  /\ life.handler = "ViewSync.handleGenerate"
  /\ life.err = MsgSafetyBlocked
  /\ life.jobId # NULL
  /\ db[life.jobId].status = "failed"
  /\ db[life.jobId].error_message = MsgSafetyBlocked

\* C35: createJob has removed the three transaction markers from
\* localStorage, and nothing else, exactly when it has returned an id; while it
\* runs and when it has thrown localStorage is as it was; a row it inserted is
\* 'pending' and stamped with the time of the insert, whatever the caller's
\* fields carried
C35_MarkersClearedOnSuccessOnly ==
  call.op = "createJob" =>
    /\ call.outcome = "returned" => call.storage = call.storage0 \ TxMarkers
    /\ call.outcome # "returned" => call.storage = call.storage0
    /\ \A j \in DOMAIN db \ DOMAIN call.before :
         db[j].status = "pending" /\ db[j].created_at = clock

\* a createJob whose caller passed the status 'completed' returned an id
\* after a foreign-key-class error: the markers are gone, another key is kept
\* and the row is 'pending'
C35_Witness ==
  /\ call.op = "createJob"
  /\ call.status = "completed"
  /\ call.attempts = <<ErrForeignKeyCode, InsertRow>>
  /\ call.outcome = "returned"
  /\ call.storage0 = TxMarkers \cup {"theme"}
  /\ call.storage = {"theme"}
  /\ db[call.id].status = "pending"

NotRetried(res) ==
  \/ res.kind = "norow"
  \/ res.kind = "error" /\ res.code # "23503" /\ ~includes(res.message, MarkForeignKey)

\* C36: createJob makes at most retries + 1 inserts and has ended when it has
\* made that many; an error that is not of the foreign-key class and an
\* insert without a row end it at once with a throw
C36_BoundedAttempts ==
  call.op = "createJob" =>
    LET n == Len(call.attempts) IN
    /\ n <= call.retries + 1
    /\ n = call.retries + 1 => call.outcome # "running"
    /\ \A k \in 1..n :
         NotRetried(call.attempts[k]) => (k = n /\ call.outcome = "threw")

\* with two retries, the second insert gave an error of another class and
\* createJob threw without a third insert
C36_Witness ==
  /\ call.op = "createJob"
  /\ call.retries = DefaultRetries
  /\ call.attempts = <<ErrForeignKeyText, ErrOther>>
  /\ call.outcome = "threw"

\* C37: whatever the order in which the handler and the sweeps write, a job
\* whose status is 'completed' has no error message
C37_CompletedHasNoErrorMessage ==
  \A j \in DOMAIN db : db[j].status = "completed" => db[j].error_message = NoMsg

\* the sweep marked the handler's job 'failed' with its timeout message while
\* the handler was generating, and the handler's later 'completed' write
\* cleared the message
C37_Witness ==
  /\ life.jobId \in DOMAIN db
  /\ life.jobId \in reap.marked
  /\ Occurs("update_completed")
  /\ db[life.jobId].status = "completed"
  /\ db[life.jobId].error_message = NoMsg

\* the number of refundCredits calls of the reaper against logId that
\* credited the balance
ReaperCreditsFor(logId) ==
  Copies(refundCalls, {c \in BagToSet(refundCalls) :
                         c.by = "reaper" /\ c.logId = logId /\ c.ok})

\* C38: over all the sweeps for a user the reaper credits a job at most
\* once, also when its 'failed' write did not reach the table and the job is
\* still 'processing' at the next sweep
C38_ReaperRefundsOnce ==
  \A j \in DOMAIN db :
    db[j].usage_log_id # NULL => ReaperCreditsFor(db[j].usage_log_id) <= 1

AnyUpdate ==
  Occurs("update_processing") \/ Occurs("update_completed") \/ Occurs("update_failed")

\* C39: when createJob failed after a successful deduct in
\* ViewSync.handleGenerate, the generator is not invoked and no status update
\* is issued, and once the handler has ended refundCredits has been called
\* with the full cost against the usageLogId of the deduct
C39_CreateJobFailureRefunds ==
  (/\ life.handler = "ViewSync.handleGenerate"
   /\ Occurs("deduct")
   /\ Occurs("createJob_failed"))
    => /\ ~Occurs("generate")
       /\ ~AnyUpdate
       /\ life.pc = "done"
            => \E c \in LifecycleRefunds :
                 c.amount = life.cost /\ c.logId = life.logId

====
